---- MODULE Spec2Model ----
(***************************************************************************)
(* A model of the transcript pipeline of Podcast-Agent:                    *)
(*   ContentChunker.chunk_transcript and its splitting helpers,            *)
(*   ContentChunker._deduplicate_and_rank,                                 *)
(*   ContentChunker.merge_chunk_analyses,                                  *)
(*   ClaudeAnalyzer.analyze_podcast_transcript and its heuristic           *)
(*   extraction.                                                           *)
(* In the chunker a Python str is a sequence of one-character strings.     *)
(* Python offsets are 0-based, sequences here are 1-based: the slice       *)
(* s[a:b] is SubSeq(s, a + 1, b).                                          *)
(***************************************************************************)
EXTENDS Integers, Sequences, FiniteSets, TLC

VARIABLES
    transcript,       \* chunk_transcript: the transcript argument
    max_chunk_size,   \* ContentChunker.max_chunk_size
    overlap_size,     \* ContentChunker.overlap_size
    preserve_context, \* chunk_transcript: the preserve_context argument
    fault,            \* the helper that raises in this call ("none": no helper raises)
    core,             \* the local list `chunks` of the splitting helper before overlap is added
    chunks,           \* the list chunk_transcript returns
    cpc,              \* position of the chunker call: "ready", "done"
    items,            \* _deduplicate_and_rank: the items argument
    max_items,        \* _deduplicate_and_rank: the max_items argument
    unique,           \* the local list unique_items when the scan of items ends (line 415)
    ranked,           \* the list _deduplicate_and_rank returns
    reranked,         \* the list a second call on `ranked` returns
    dpc,              \* position of the deduplicator calls: "build", "once", "twice"
    chunk_analyses,   \* merge_chunk_analyses: the chunk_analyses argument
    merged,           \* the record merge_chunk_analyses returns
    mpc,              \* position of the merge call: "build", "done"
    transcript_lines, \* analyze_podcast_transcript: the transcript argument, line by line
    video_metadata,   \* analyze_podcast_transcript: the video_metadata argument
    agent,            \* what the Claude Code Task tool does in this call (lines 160-214)
    afault,           \* the step of the analysis that raises in this call ("none": no step raises)
    context,          \* the context argument of _create_basic_analysis_from_transcript
    analysis,         \* the analysis record the call returns
    method,           \* processing_metadata['method'] of the result
    apc,              \* position of the analyzer call: "build", "analyzed", "extracted"
    current_pos,      \* _chunk_simple: the local current_pos of the while loop
    channels,                \* ProgressTracker.channels
    channel_status,          \* ProgressTracker.channel_status
    errors,                  \* ProgressTracker.errors, an entry <<channel, error>> for "@channel: error"
    current_channel,         \* ProgressTracker.current_channel
    total_videos_processed,  \* ProgressTracker.total_videos_processed
    successful_analyses,     \* ProgressTracker.successful_analyses
    start_time,              \* ProgressTracker.start_time: "None" or "set"
    end_time,                \* ProgressTracker.end_time: "None" or "set"
    last_call,               \* the latest call made on the tracker, with its channel argument
    args,             \* execute_command: the args argument ('channels', 'dry_run')
    valid_channels,   \* execute_command: the local valid_channels
    channel_index,    \* the place in valid_channels of the loop variable `channel`
    all_analyses,     \* execute_command: len(all_analyses)
    tracker_calls,    \* the calls execute_command has made on self.progress_tracker, in order
    result,           \* what execute_command returns ("None" until it does)
    epc,              \* position in execute_command
    max_retries,      \* retry_with_backoff: the decorator's max_retries
    base_delay,       \* retry_with_backoff: the decorator's base_delay
    backoff_factor,   \* retry_with_backoff: the decorator's backoff_factor
    attempt,          \* the wrapper's loop variable
    last_exception,   \* the wrapper's last_exception: 0 for None, else the call that raised it
    func_calls,       \* the calls of the wrapped function so far: "returned" or "raised"
    delays,           \* the arguments of time.sleep so far
    outcome,          \* how the wrapper ended
    rpc               \* position in the wrapper

chunkVars == <<transcript, max_chunk_size, overlap_size, preserve_context, fault, core, chunks, cpc>>
dedupVars == <<items, max_items, unique, ranked, reranked, dpc>>
mergeVars == <<chunk_analyses, merged, mpc>>
analyzeVars == <<transcript_lines, video_metadata, agent, afault, context, analysis, method, apc>>
simpleVars == <<current_pos>>
trackerVars == <<channels, channel_status, errors, current_channel, total_videos_processed,
                 successful_analyses, start_time, end_time, last_call>>
commandVars == <<args, valid_channels, channel_index, all_analyses, tracker_calls, result, epc>>
retryVars == <<max_retries, base_delay, backoff_factor, attempt, last_exception, func_calls,
               delays, outcome, rpc>>
otherVars == <<simpleVars, trackerVars, commandVars, retryVars>>
vars == <<chunkVars, dedupVars, mergeVars, analyzeVars, otherVars>>

(***************************************************************************)
(* Bounds of the model.                                                    *)
(***************************************************************************)
MaxLen == 5        \* transcripts have at most MaxLen characters
MaxChunk == 4      \* max_chunk_size ranges over 1..MaxChunk
MaxOverlap == 2    \* overlap_size ranges over 0..MaxOverlap

(***************************************************************************)
(* Characters and the str methods the code uses.                           *)
(***************************************************************************)
WS == {" ", "\n"}
EndPunct == {".", "!", "?"}
Alphabet == {"a", ".", "!", " ", "\n"}

Min(a, b) == IF a <= b THEN a ELSE b
Max(a, b) == IF a >= b THEN a ELSE b

SetMax(S) == CHOOSE x \in S : \A y \in S : y <= x

RECURSIVE LStrip(_)
LStrip(s) == IF s = <<>> THEN s
             ELSE IF Head(s) \in WS THEN LStrip(Tail(s)) ELSE s

RECURSIVE RStrip(_)
RStrip(s) == IF s = <<>> THEN s
             ELSE IF s[Len(s)] \in WS THEN RStrip(SubSeq(s, 1, Len(s) - 1)) ELSE s

\* str.strip()
Strip(s) == RStrip(LStrip(s))

RECURSIVE SplitAcc(_, _, _)
SplitAcc(s, cur, acc) ==
    IF s = <<>> THEN (IF cur = <<>> THEN acc ELSE Append(acc, cur))
    ELSE IF Head(s) \in WS
         THEN SplitAcc(Tail(s), <<>>, IF cur = <<>> THEN acc ELSE Append(acc, cur))
         ELSE SplitAcc(Tail(s), Append(cur, Head(s)), acc)

\* str.split(): the maximal runs of non-whitespace characters
Split(s) == SplitAcc(s, <<>>, <<>>)

\* the index after the maximal whitespace run that starts at index i
RECURSIVE WsRunEnd(_, _)
WsRunEnd(s, i) == IF i <= Len(s) /\ s[i] \in WS THEN WsRunEnd(s, i + 1) ELSE i

\* self.sentence_endings = r'[.!?]\s+' matched at index i: the index after the
\* match, 0 when there is no match at i
SentenceMatchEnd(s, i) ==
    IF s[i] \in EndPunct /\ i + 1 <= Len(s) /\ s[i + 1] \in WS
    THEN WsRunEnd(s, i + 1) ELSE 0

\* self.paragraph_breaks = r'\n\s*\n' matched at index i: \s* is greedy and backs
\* off to the last newline of the whitespace run
ParagraphMatchEnd(s, i) ==
    IF s[i] # "\n" THEN 0
    ELSE LET r == WsRunEnd(s, i + 1)
             nl == {j \in (i + 1)..(r - 1) : s[j] = "\n"}
         IN IF nl = {} THEN 0 ELSE SetMax(nl) + 1

MatchEnd(s, kind, i) ==
    IF kind = "sentence" THEN SentenceMatchEnd(s, i) ELSE ParagraphMatchEnd(s, i)

\* re.split(pattern, s): the pieces between the leftmost non-overlapping matches
RECURSIVE ReSplitFrom(_, _, _, _)
ReSplitFrom(s, kind, i, from) ==
    IF i > Len(s) THEN <<SubSeq(s, from, Len(s))>>
    ELSE LET e == MatchEnd(s, kind, i)
         IN IF e > 0
            THEN <<SubSeq(s, from, i - 1)>> \o ReSplitFrom(s, kind, e, e)
            ELSE ReSplitFrom(s, kind, i + 1, from)

ReSplit(s, kind) == ReSplitFrom(s, kind, 1, 1)

\* the end of the last match of re.finditer(sentence_endings, s), 0 when none
RECURSIVE LastSentenceMatchEnd(_, _, _)
LastSentenceMatchEnd(s, i, last) ==
    IF i > Len(s) THEN last
    ELSE LET e == SentenceMatchEnd(s, i)
         IN IF e > 0 THEN LastSentenceMatchEnd(s, e, e - 1)
            ELSE LastSentenceMatchEnd(s, i + 1, last)

\* "\n\n[... continuing ...]\n\n"
Marker == <<"\n", "\n", "[", ".", ".", ".", " ", "c", "o", "n", "t", "i", "n", "u", "i", "n", "g",
            " ", ".", ".", ".", "]", "\n", "\n">>

(***************************************************************************)
(* ContentChunker: the splitting helpers.  m is self.max_chunk_size and o  *)
(* is self.overlap_size.                                                   *)
(***************************************************************************)

\* the dict every helper appends: end_char is start_char + len(text)
ChunkDict(text, start, complete) ==
    [text |-> text, start_char |-> start, end_char |-> start + Len(text),
     is_complete |-> complete]

\* _split_by_words: the loop over words, then the final chunk
RECURSIVE WordLoop(_, _, _, _, _)
WordLoop(words, current_chunk, current_start, acc, m) ==
    IF words = <<>>
    THEN (IF current_chunk # <<>>
          THEN Append(acc, ChunkDict(current_chunk, current_start, FALSE)) ELSE acc)
    ELSE LET word == Head(words)
             test_chunk == IF current_chunk # <<>>
                           THEN current_chunk \o <<" ">> \o word ELSE word
         IN IF Len(test_chunk) <= m
            THEN WordLoop(Tail(words), test_chunk, current_start, acc, m)
            ELSE IF current_chunk # <<>>
                 THEN WordLoop(Tail(words), word, current_start + Len(current_chunk),
                               Append(acc, ChunkDict(current_chunk, current_start, FALSE)), m)
                 ELSE WordLoop(Tail(words), word, current_start, acc, m)

SplitByWords(text, start_pos, m) == WordLoop(Split(text), <<>>, start_pos, <<>>, m)

\* _split_large_paragraph, lines 152-158: the i-th sentence as the loop sees it,
\* stripped, with ". " put back except after the last piece (<<>>: skipped)
BuiltSentence(sentences, i) ==
    LET sentence == Strip(sentences[i])
    IN IF sentence = <<>> THEN <<>>
       ELSE IF i < Len(sentences) THEN sentence \o <<".", " ">> ELSE sentence

\* _split_large_paragraph: the loop over sentences, then the final chunk
RECURSIVE SentenceLoop(_, _, _, _, _, _)
SentenceLoop(sentences, i, current_chunk, current_start, acc, m) ==
    IF i > Len(sentences)
    THEN (IF current_chunk # <<>>
          THEN Append(acc, ChunkDict(current_chunk, current_start, FALSE)) ELSE acc)
    ELSE LET sentence == BuiltSentence(sentences, i)
             test_chunk == current_chunk \o sentence
             flushed == IF current_chunk # <<>>
                        THEN Append(acc, ChunkDict(current_chunk, current_start, FALSE))
                        ELSE acc
             start1 == IF current_chunk # <<>>
                       THEN current_start + Len(current_chunk) ELSE current_start
         IN IF sentence = <<>>
            THEN SentenceLoop(sentences, i + 1, current_chunk, current_start, acc, m)
            ELSE IF Len(test_chunk) <= m
            THEN SentenceLoop(sentences, i + 1, test_chunk, current_start, acc, m)
            ELSE IF Len(sentence) > m
            THEN LET ext == flushed \o SplitByWords(sentence, start1, m)
                 IN SentenceLoop(sentences, i + 1, <<>>, ext[Len(ext)].end_char, ext, m)
            ELSE SentenceLoop(sentences, i + 1, sentence, start1, flushed, m)

SplitLargeParagraph(paragraph, start_pos, m) ==
    SentenceLoop(ReSplit(paragraph, "sentence"), 1, <<>>, start_pos, <<>>, m)

\* the overlap of line 277-283 taken from the text prev
OverlapText(prev, o) ==
    LET overlap_start == Max(0, Len(prev) - o)
        tail == SubSeq(prev, overlap_start + 1, Len(prev))
        sentences == ReSplit(tail, "sentence")
    IN IF Len(sentences) > 1 THEN sentences[Len(sentences)] ELSE tail

\* the texts of a list in which every chunk takes its overlap from the text the
\* chunk before it has after its own overlap was added
RECURSIVE AccumulatedTexts(_, _, _, _)
AccumulatedTexts(cs, o, i, acc) ==
    IF i > Len(cs) THEN acc
    ELSE AccumulatedTexts(cs, o, i + 1,
            Append(acc, IF i = 1 THEN cs[1].text
                        ELSE OverlapText(acc[i - 1], o) \o Marker \o cs[i].text))

\* variant: overlaps accumulate from chunk to chunk
AddOverlapAccumulating(cs, o) ==
    IF Len(cs) <= 1 \/ o <= 0 THEN cs
    ELSE [i \in 1..Len(cs) |->
            IF i = 1 THEN cs[1]
            ELSE [text |-> AccumulatedTexts(cs, o, 1, <<>>)[i],
                  start_char |-> cs[i].start_char,
                  end_char |-> cs[i].end_char,
                  is_complete |-> cs[i].is_complete,
                  has_overlap |-> TRUE,
                  overlap_size |-> o]]

\* _add_overlap_to_chunks
AddOverlapToChunks(cs, o) ==
    IF Len(cs) <= 1 \/ o <= 0 THEN cs
    ELSE [i \in 1..Len(cs) |->
            IF i = 1 THEN cs[1]
            ELSE LET prev == cs[i - 1].text
                     overlap_start == Max(0, Len(prev) - o)
                     tail == SubSeq(prev, overlap_start + 1, Len(prev))
                     sentences == ReSplit(tail, "sentence")
                     overlap_text == IF Len(sentences) > 1
                                     THEN sentences[Len(sentences)] ELSE tail
                 IN [text |-> overlap_text \o Marker \o cs[i].text,
                     start_char |-> cs[i].start_char - Len(overlap_text),
                     end_char |-> cs[i].end_char,
                     is_complete |-> cs[i].is_complete,
                     has_overlap |-> TRUE,
                     overlap_size |-> Len(overlap_text)]]

\* _chunk_with_context_preservation: the loop over paragraphs, then the final chunk
RECURSIVE ParagraphLoop(_, _, _, _, _, _)
ParagraphLoop(paragraphs, i, current_chunk, current_start, acc, m) ==
    IF i > Len(paragraphs)
    THEN (IF current_chunk # <<>>
          THEN Append(acc, ChunkDict(current_chunk, current_start, TRUE)) ELSE acc)
    ELSE LET paragraph == Strip(paragraphs[i])
             test_chunk == IF current_chunk # <<>>
                           THEN current_chunk \o <<"\n", "\n">> \o paragraph ELSE paragraph
             flushed == IF current_chunk # <<>>
                        THEN Append(acc, ChunkDict(current_chunk, current_start, TRUE))
                        ELSE acc
             start1 == IF current_chunk # <<>>
                       THEN current_start + Len(current_chunk) ELSE current_start
         IN IF paragraph = <<>>
            THEN ParagraphLoop(paragraphs, i + 1, current_chunk, current_start, acc, m)
            ELSE IF Len(test_chunk) <= m
            THEN ParagraphLoop(paragraphs, i + 1, test_chunk, current_start, acc, m)
            ELSE IF Len(paragraph) > m
            THEN LET ext == flushed \o SplitLargeParagraph(paragraph, start1, m)
                 IN ParagraphLoop(paragraphs, i + 1, <<>>, ext[Len(ext)].end_char, ext, m)
            ELSE ParagraphLoop(paragraphs, i + 1, paragraph, start1, flushed, m)

\* _chunk_with_context_preservation, lines 91-135: the chunks before overlap
ContextChunks(t, m) == ParagraphLoop(ReSplit(t, "paragraph"), 1, <<>>, 0, <<>>, m)

\* _chunk_with_context_preservation
ChunkWithContextPreservation(t, m, o) ==
    IF o > 0 THEN AddOverlapToChunks(ContextChunks(t, m), o) ELSE ContextChunks(t, m)

\* _chunk_simple, line 241: how far back from the cut a sentence end is looked for
SentenceWindow == 200

\* _chunk_simple: the while loop
RECURSIVE SimpleLoop(_, _, _, _)
SimpleLoop(t, pos, acc, m) ==
    IF pos >= Len(t) THEN acc
    ELSE LET cut == Min(pos + m, Len(t))
             search_start == Max(cut - SentenceWindow, pos)
             last == LastSentenceMatchEnd(SubSeq(t, search_start + 1, cut), 1, 0)
             end_pos == IF cut < Len(t) /\ last > 0 THEN search_start + last ELSE cut
             chunk_text == Strip(SubSeq(t, pos + 1, end_pos))
         IN SimpleLoop(t, end_pos,
                       IF chunk_text # <<>>
                       THEN Append(acc, [text |-> chunk_text, start_char |-> pos,
                                         end_char |-> end_pos,
                                         is_complete |-> (end_pos = Len(t))])
                       ELSE acc, m)

\* variant: the window is one character too wide
ChunkSimpleWide(t, m) == SimpleLoop(t, 0, <<>>, m + 1)

ChunkSimple(t, m) == SimpleLoop(t, 0, <<>>, m)

(***************************************************************************)
(* ContentChunker.chunk_transcript.                                        *)
(***************************************************************************)

\* len(text.split())
WordCount(text) == Len(Split(text))

\* the helpers of the splitting, for the one that raises in a call
Helpers == {"_chunk_with_context_preservation", "_split_large_paragraph",
            "_split_by_words", "_add_overlap_to_chunks", "_chunk_simple"}

\* the stripped non-empty paragraphs longer than the limit: those handed to
\* _split_large_paragraph (line 120)
LargeParagraphs(t, m) ==
    LET ps == ReSplit(t, "paragraph")
    IN {Strip(ps[i]) : i \in {j \in 1..Len(ps) : Len(Strip(ps[j])) > m}}

\* whether some sentence of paragraph p is handed to _split_by_words (line 175)
HasLargeSentence(p, m) ==
    LET ss == ReSplit(p, "sentence")
    IN \E i \in 1..Len(ss) : Len(BuiltSentence(ss, i)) > m

\* whether chunk_transcript(t, pc) calls helper h (lines 50-53, 121, 139, 176)
Calls(h, t, m, o, pc) ==
    /\ Len(t) > m
    /\ CASE h = "_chunk_with_context_preservation" -> pc
         [] h = "_chunk_simple" -> ~pc
         [] h = "_split_large_paragraph" -> pc /\ LargeParagraphs(t, m) # {}
         [] h = "_split_by_words" ->
                pc /\ \E p \in LargeParagraphs(t, m) : HasLargeSentence(p, m)
         [] h = "_add_overlap_to_chunks" -> pc /\ o > 0
         [] OTHER -> FALSE

\* variant: the single chunk holds the stripped transcript
WholeTranscriptStripped(t) ==
    <<[chunk_id |-> 1, text |-> Strip(t), start_char |-> 0, end_char |-> Len(Strip(t)),
       word_count |-> WordCount(t), is_complete |-> TRUE]>>

\* lines 38-46: the transcript fits in one chunk
WholeTranscript(t) ==
    <<[chunk_id |-> 1, text |-> t, start_char |-> 0, end_char |-> Len(t),
       word_count |-> WordCount(t), is_complete |-> TRUE]>>

\* variant: the except branch does not tag the chunk
ErrorFallbackUntagged(t, e) == WholeTranscript(t)

\* lines 74-85: the except branch
ErrorFallback(t, e) ==
    <<[chunk_id |-> 1, text |-> t, start_char |-> 0, end_char |-> Len(t),
       word_count |-> WordCount(t), is_complete |-> TRUE, error |-> e]>>

\* lines 55-69: the metadata added to the helper's chunks
EnhancedChunks(cs, pc) ==
    [i \in 1..Len(cs) |->
        [chunk_id |-> i,
         text |-> cs[i].text,
         start_char |-> cs[i].start_char,
         end_char |-> cs[i].end_char,
         word_count |-> WordCount(cs[i].text),
         char_count |-> Len(cs[i].text),
         is_complete |-> cs[i].is_complete,
         has_overlap |-> IF "has_overlap" \in DOMAIN cs[i] THEN cs[i].has_overlap ELSE FALSE,
         context_preserved |-> pc]]

\* lines 50-53
SplitChunks(t, m, o, pc) ==
    IF pc THEN ChunkWithContextPreservation(t, m, o) ELSE ChunkSimple(t, m)

\* chunk_transcript; f is the helper that raises when it is called ("none": none does)
ChunkTranscriptResult(t, m, o, pc, f) ==
    IF Len(t) <= m THEN WholeTranscript(t)
    ELSE IF f \in Helpers /\ Calls(f, t, m, o, pc) THEN ErrorFallback(t, f)
    ELSE EnhancedChunks(SplitChunks(t, m, o, pc), pc)

\* the text of each returned segment without the overlap and the marker that
\* _add_overlap_to_chunks puts in front of it
TextOf(cs) == [i \in 1..Len(cs) |-> cs[i].text]

CoreTexts(t, m, o, pc, f) ==
    IF Len(t) <= m \/ (f \in Helpers /\ Calls(f, t, m, o, pc)) THEN <<t>>
    ELSE IF pc THEN TextOf(ContextChunks(t, m)) ELSE TextOf(ChunkSimple(t, m))

Strings(n) == UNION {[1..k -> Alphabet] : k \in 0..n}

ChunkInit ==
    /\ max_chunk_size \in 1..MaxChunk
    /\ overlap_size \in 0..MaxOverlap
    /\ transcript = <<>>
    /\ preserve_context = TRUE
    /\ fault = "none"
    /\ core = <<>>
    /\ chunks = <<>>
    /\ cpc = "ready"

\* a call chunker.chunk_transcript(t, pc) with a transcript t of the set ts
ChunkTranscriptIn(ts) ==
    /\ cpc = "ready"
    /\ \E t \in ts, pc \in BOOLEAN, f \in Helpers \cup {"none"} :
        /\ f \in Helpers => Calls(f, t, max_chunk_size, overlap_size, pc)
        /\ transcript' = t
        /\ preserve_context' = pc
        /\ fault' = f
        /\ chunks' = ChunkTranscriptResult(t, max_chunk_size, overlap_size, pc, f)
        /\ core' = CoreTexts(t, max_chunk_size, overlap_size, pc, f)
    /\ cpc' = "done"
    /\ UNCHANGED <<max_chunk_size, overlap_size>>

\* a call chunker.chunk_transcript(t, pc)
ChunkTranscript == ChunkTranscriptIn(Strings(MaxLen))

\* the caller takes the result; the chunker is ready for the next call
ChunkReturn ==
    /\ cpc = "done"
    /\ transcript' = <<>>
    /\ preserve_context' = TRUE
    /\ fault' = "none"
    /\ core' = <<>>
    /\ chunks' = <<>>
    /\ cpc' = "ready"
    /\ UNCHANGED <<max_chunk_size, overlap_size>>

DedupIdle ==
    /\ items = <<>>
    /\ max_items = 0
    /\ unique = <<>>
    /\ ranked = <<>>
    /\ reranked = <<>>
    /\ dpc = "idle"

MergeIdle ==
    /\ chunk_analyses = <<>>
    /\ merged = <<>>
    /\ mpc = "idle"

AnalyzeIdle ==
    /\ transcript_lines = <<>>
    /\ video_metadata = <<>>
    /\ agent = "unavailable"
    /\ afault = "none"
    /\ context = <<>>
    /\ analysis = <<>>
    /\ method = "none"
    /\ apc = "idle"

SimpleIdle == current_pos = 0

\* ProgressTracker.reset, lines 20-28: the state of a new tracker
TrackerReset ==
    /\ start_time = "None"
    /\ end_time = "None"
    /\ channels = <<>>
    /\ channel_status = <<>>
    /\ errors = <<>>
    /\ current_channel = "None"
    /\ total_videos_processed = 0
    /\ successful_analyses = 0

TrackerIdle == TrackerReset /\ last_call = [method |-> "__init__", channel |-> "None"]

CommandIdle ==
    /\ args = <<>>
    /\ valid_channels = <<>>
    /\ channel_index = 0
    /\ all_analyses = 0
    /\ tracker_calls = <<>>
    /\ result = "None"
    /\ epc = "idle"

RetryIdle ==
    /\ max_retries = 0
    /\ base_delay = 0
    /\ backoff_factor = 0
    /\ attempt = 0
    /\ last_exception = 0
    /\ func_calls = <<>>
    /\ delays = <<>>
    /\ outcome = [kind |-> "None", call |-> 0]
    /\ rpc = "idle"

OtherIdle == SimpleIdle /\ TrackerIdle /\ CommandIdle /\ RetryIdle

SpecChunkInit == ChunkInit /\ DedupIdle /\ MergeIdle /\ AnalyzeIdle /\ OtherIdle

SpecChunkNext ==
    \/ ChunkTranscript /\ UNCHANGED <<dedupVars, mergeVars, analyzeVars, otherVars>>
    \/ ChunkReturn /\ UNCHANGED <<dedupVars, mergeVars, analyzeVars, otherVars>>

SpecChunk == SpecChunkInit /\ [][SpecChunkNext]_vars

(***************************************************************************)
(* ContentChunker._deduplicate_and_rank.                                   *)
(***************************************************************************)
MaxItems == 3      \* the items argument has at most MaxItems entries
MaxCap == 2        \* max_items ranges over -1..MaxCap

LowerOf == [A |-> "a", B |-> "b", C |-> "c", D |-> "d", E |-> "e", F |-> "f"]

\* str.lower()
Lower(s) == [i \in 1..Len(s) |-> IF s[i] \in DOMAIN LowerOf THEN LowerOf[s[i]] ELSE s[i]]

\* set(text.split())
WordSet(text) == {Split(text)[i] : i \in 1..Len(Split(text))}

\* variant: similarity >= 0.8 counts as a duplicate
SimilarAtThreshold(item_lower, seen_item) ==
    LET words1 == WordSet(item_lower)
        words2 == WordSet(seen_item)
        overlap == Cardinality(words1 \cap words2)
    IN /\ Cardinality(words1) > 0
       /\ Cardinality(words2) > 0
       /\ 10 * overlap >= 8 * Max(Cardinality(words1), Cardinality(words2))

\* lines 402-409: similarity = overlap / max(len(words1), len(words2)) > 0.8,
\* compared exactly: overlap / n > 8 / 10 iff 10 * overlap > 8 * n
Similar(item_lower, seen_item) ==
    LET words1 == WordSet(item_lower)
        words2 == WordSet(seen_item)
        overlap == Cardinality(words1 \cap words2)
    IN /\ Cardinality(words1) > 0
       /\ Cardinality(words2) > 0
       /\ 10 * overlap > 8 * Max(Cardinality(words1), Cardinality(words2))

\* lines 395-415: the scan; unique_items are the kept items, seen_lower the set of
\* their lower-cased, stripped texts
RECURSIVE UniqueLoop(_, _, _, _)
UniqueLoop(its, i, unique_items, seen_lower) ==
    IF i > Len(its) THEN unique_items
    ELSE LET item_lower == Strip(Lower(its[i]))
             is_duplicate == \E seen_item \in seen_lower : Similar(item_lower, seen_item)
         IN IF is_duplicate
            THEN UniqueLoop(its, i + 1, unique_items, seen_lower)
            ELSE UniqueLoop(its, i + 1, Append(unique_items, its[i]),
                            seen_lower \cup {item_lower})

UniqueItems(its) == UniqueLoop(its, 1, <<>>, {})

\* variant: entries of equal key change places (a sort that is not stable)
KeyLessOrEqual(x, y) ==
    \/ WordCount(x) < WordCount(y)
    \/ WordCount(x) = WordCount(y) /\ Len(x) <= Len(y)

\* variant: the key is the word count alone
KeyLessWordsOnly(x, y) == WordCount(x) < WordCount(y)

\* line 418: the sort key (len(x.split()), len(x)), compared as Python compares tuples
KeyLess(x, y) ==
    \/ WordCount(x) < WordCount(y)
    \/ WordCount(x) = WordCount(y) /\ Len(x) < Len(y)

\* x put into a list sorted by descending key, after the entries whose key is not
\* less than its own
RECURSIVE InsertDesc(_, _)
InsertDesc(sorted, x) ==
    IF sorted = <<>> THEN <<x>>
    ELSE IF KeyLess(Head(sorted), x) THEN <<x>> \o sorted
    ELSE <<Head(sorted)>> \o InsertDesc(Tail(sorted), x)

\* sorted(unique_items, key=..., reverse=True): stable, entries of equal key keep
\* their order
RECURSIVE SortedDesc(_)
SortedDesc(its) ==
    IF its = <<>> THEN <<>>
    ELSE InsertDesc(SortedDesc(SubSeq(its, 1, Len(its) - 1)), its[Len(its)])

\* the slice xs[:k]; a negative k counts from the end
Prefix(xs, k) ==
    IF k >= 0 THEN SubSeq(xs, 1, Min(k, Len(xs)))
    ELSE SubSeq(xs, 1, Max(Len(xs) + k, 0))

\* variant: the cap is applied before the sort
DeduplicateAndRankCutFirst(its, k) ==
    IF its = <<>> THEN <<>> ELSE SortedDesc(Prefix(UniqueItems(its), k))

DeduplicateAndRank(its, k) ==
    IF its = <<>> THEN <<>> ELSE Prefix(SortedDesc(UniqueItems(its)), k)

\* the candidate texts the items are drawn from: one letter is one word
Words(ws) == [i \in 1..(2 * Len(ws) - 1) |-> IF i % 2 = 1 THEN ws[(i + 1) \div 2] ELSE " "]

ItemPool ==
    { Words(<<"a", "b", "C", "d", "e">>),
      Words(<<"a", "b", "c", "d", "e", "f">>),
      Words(<<"b", "c", "d", "e", "f">>),
      Words(<<"a", "b", "c", "d", "e">>),
      Words(<<"a", "b">>),
      <<"a", " ", " ", "b">>,
      <<"a", "b", " ", "c">>,
      <<" ", "f">>,
      <<" ">>,
      <<>> }

DedupInit ==
    /\ items = <<>>
    /\ max_items \in (0 - 1)..MaxCap
    /\ unique = <<>>
    /\ ranked = <<>>
    /\ reranked = <<>>
    /\ dpc = "build"

\* the caller collects one more candidate
AddItem ==
    /\ dpc = "build"
    /\ Len(items) < MaxItems
    /\ \E x \in ItemPool : items' = Append(items, x)
    /\ UNCHANGED <<max_items, unique, ranked, reranked, dpc>>

\* a call _deduplicate_and_rank(items, max_items)
Deduplicate ==
    /\ dpc = "build"
    /\ unique' = UniqueItems(items)
    /\ ranked' = DeduplicateAndRank(items, max_items)
    /\ dpc' = "once"
    /\ UNCHANGED <<items, max_items, reranked>>

\* a second call, on the list the first call returned
DeduplicateAgain ==
    /\ dpc = "once"
    /\ reranked' = DeduplicateAndRank(ranked, max_items)
    /\ dpc' = "twice"
    /\ UNCHANGED <<items, max_items, unique, ranked>>

ChunkIdle ==
    /\ max_chunk_size = 1
    /\ overlap_size = 0
    /\ transcript = <<>>
    /\ preserve_context = TRUE
    /\ fault = "none"
    /\ core = <<>>
    /\ chunks = <<>>
    /\ cpc = "idle"

SpecDedupInit == DedupInit /\ ChunkIdle /\ MergeIdle /\ AnalyzeIdle /\ OtherIdle

SpecDedupNext ==
    \/ AddItem /\ UNCHANGED <<chunkVars, mergeVars, analyzeVars, otherVars>>
    \/ Deduplicate /\ UNCHANGED <<chunkVars, mergeVars, analyzeVars, otherVars>>
    \/ DeduplicateAgain /\ UNCHANGED <<chunkVars, mergeVars, analyzeVars, otherVars>>

SpecDedup == SpecDedupInit /\ [][SpecDedupNext]_vars

(***************************************************************************)
(* _deduplicate_and_rank with the iteration of the set seen_lower made     *)
(* explicit (line 400).  Python fixes no order for the iteration of a set  *)
(* of strings; perm, a permutation of the places of the kept items, is the *)
(* order of one call.                                                      *)
(***************************************************************************)
\* the elements of seen_lower in the order perm gives them
RECURSIVE SeenOrder(_, _, _, _)
SeenOrder(unique_items, perm, k, acc) ==
    IF k > MaxItems THEN acc
    ELSE LET seen_item == Strip(Lower(unique_items[perm[k]]))
         IN SeenOrder(unique_items, perm, k + 1,
                IF perm[k] <= Len(unique_items)
                        /\ \A j \in 1..Len(acc) : acc[j] # seen_item
                THEN Append(acc, seen_item) ELSE acc)

\* variant: only the element iterated first is compared
ScanSeenFirstOnly(order, item_lower) ==
    order # <<>> /\ Similar(item_lower, Head(order))

\* lines 400-411: the loop over seen_lower, left at the first similar element
RECURSIVE ScanSeen(_, _)
ScanSeen(order, item_lower) ==
    IF order = <<>> THEN FALSE
    ELSE IF Similar(item_lower, Head(order)) THEN TRUE
    ELSE ScanSeen(Tail(order), item_lower)

\* lines 395-415 with the set iterated in the order perm
RECURSIVE UniqueLoopOrdered(_, _, _, _)
UniqueLoopOrdered(its, i, unique_items, perm) ==
    IF i > Len(its) THEN unique_items
    ELSE LET item_lower == Strip(Lower(its[i]))
             is_duplicate == ScanSeen(SeenOrder(unique_items, perm, 1, <<>>), item_lower)
         IN UniqueLoopOrdered(its, i + 1,
                IF is_duplicate THEN unique_items ELSE Append(unique_items, its[i]), perm)

DeduplicateAndRankOrdered(its, k, perm) ==
    IF its = <<>> THEN <<>>
    ELSE Prefix(SortedDesc(UniqueLoopOrdered(its, 1, <<>>, perm)), k)

\* a call _deduplicate_and_rank(items, max_items) in a run that iterates the set
\* in some order
DeduplicateInOrder ==
    /\ dpc = "build"
    /\ \E perm \in Permutations(1..MaxItems) :
        /\ unique' = UniqueLoopOrdered(items, 1, <<>>, perm)
        /\ ranked' = DeduplicateAndRankOrdered(items, max_items, perm)
    /\ dpc' = "once"
    /\ UNCHANGED <<items, max_items, reranked>>

\* the same call in another run, which iterates the set in some order of its own
DeduplicateRerun ==
    /\ dpc = "once"
    /\ \E perm \in Permutations(1..MaxItems) :
        reranked' = DeduplicateAndRankOrdered(items, max_items, perm)
    /\ dpc' = "twice"
    /\ UNCHANGED <<items, max_items, unique, ranked>>

SpecDedupOrderInit == DedupInit /\ ChunkIdle /\ MergeIdle /\ AnalyzeIdle /\ OtherIdle

\* the items of the runs compared: two pairs of near-duplicates and one item
\* unlike the others
OrderPool ==
    { Words(<<"a", "b", "C", "d", "e">>),
      Words(<<"a", "b", "c", "d", "e">>),
      Words(<<"a", "b">>),
      <<"a", " ", " ", "b">>,
      <<"a", "b", " ", "c">> }

SpecDedupOrderNext ==
    \/ AddItem /\ items'[Len(items')] \in OrderPool
            /\ UNCHANGED <<chunkVars, mergeVars, analyzeVars, otherVars>>
    \/ DeduplicateInOrder /\ UNCHANGED <<chunkVars, mergeVars, analyzeVars, otherVars>>
    \/ DeduplicateRerun /\ UNCHANGED <<chunkVars, mergeVars, analyzeVars, otherVars>>

SpecDedupOrder == SpecDedupOrderInit /\ [][SpecDedupOrderNext]_vars

(***************************************************************************)
(* ContentChunker.merge_chunk_analyses.  A dict is a function from its     *)
(* keys; topics and category labels are only compared, so they are plain   *)
(* strings; a confidence score is the fraction num / den, den > 0.         *)
(***************************************************************************)
MaxPartials == 3   \* chunk_analyses has at most MaxPartials entries

\* {}
EmptyDict == [k \in {} |-> 0]

\* d.get(k, default)
Get(d, k, default) == IF k \in DOMAIN d THEN d[k] ELSE default

\* variant: the candidates of later chunks come first
RECURSIVE CollectLastFirst(_, _)
CollectLastFirst(cas, key) ==
    IF cas = <<>> THEN <<>>
    ELSE CollectLastFirst(Tail(cas), key)
         \o Get(Get(Head(cas), "analysis", EmptyDict), key, <<>>)

\* the concatenation, in chunk order, of analysis.get(key, []) (lines 339-346)
RECURSIVE Collect(_, _)
Collect(cas, key) ==
    IF cas = <<>> THEN <<>>
    ELSE Get(Get(Head(cas), "analysis", EmptyDict), key, <<>>) \o Collect(Tail(cas), key)

\* lines 348-349: the scores that are > 0, in chunk order
Zero == [num |-> 0, den |-> 1]

\* variant: every chunk's score counts, a score of 0 and a missing score too
RECURSIVE EveryScore(_)
EveryScore(cas) ==
    IF cas = <<>> THEN <<>>
    ELSE <<Get(Get(Head(cas), "analysis", EmptyDict), "confidence_score", Zero)>>
         \o EveryScore(Tail(cas))

RECURSIVE PositiveScores(_)
PositiveScores(cas) ==
    IF cas = <<>> THEN <<>>
    ELSE LET c == Get(Get(Head(cas), "analysis", EmptyDict), "confidence_score", Zero)
         IN (IF c.num > 0 THEN <<c>> ELSE <<>>) \o PositiveScores(Tail(cas))

\* sum(confidence_scores), exactly
RECURSIVE Sum(_)
Sum(xs) ==
    IF xs = <<>> THEN Zero
    ELSE LET r == Sum(Tail(xs))
         IN [num |-> Head(xs).num * r.den + r.num * Head(xs).den, den |-> Head(xs).den * r.den]

\* lines 364-366: sum / len, 0.0 when there is no positive score
AverageConfidence(scores) ==
    IF scores # <<>> THEN [num |-> Sum(scores).num, den |-> Sum(scores).den * Len(scores)]
    ELSE Zero

\* the keys of a dict filled in the order of xs: each value once, first seen first
RECURSIVE KeysInOrder(_, _)
KeysInOrder(xs, seen) ==
    IF xs = <<>> THEN <<>>
    ELSE IF Head(xs) \in seen THEN KeysInOrder(Tail(xs), seen)
    ELSE <<Head(xs)>> \o KeysInOrder(Tail(xs), seen \cup {Head(xs)})

\* topic_counts[x], category_counts[x]
CountOf(x, xs) == Cardinality({i \in 1..Len(xs) : xs[i] = x})

RECURSIVE InsertByCount(_, _, _)
InsertByCount(sorted, x, xs) ==
    IF sorted = <<>> THEN <<x>>
    ELSE IF CountOf(Head(sorted), xs) < CountOf(x, xs) THEN <<x>> \o sorted
    ELSE <<Head(sorted)>> \o InsertByCount(Tail(sorted), x, xs)

\* sorted(keys, key=count, reverse=True): stable
RECURSIVE SortedByCount(_, _)
SortedByCount(keys, xs) ==
    IF keys = <<>> THEN <<>>
    ELSE InsertByCount(SortedByCount(SubSeq(keys, 1, Len(keys) - 1), xs), keys[Len(keys)], xs)

\* variant: among topics of equal count the one seen last comes first
MainTopicsLastSeenFirst(all_topics) ==
    LET keys == KeysInOrder(all_topics, {})
        reversed == [i \in 1..Len(keys) |-> keys[Len(keys) + 1 - i]]
    IN Prefix(SortedByCount(reversed, all_topics), 5)

\* line 362
MainTopics(all_topics) ==
    Prefix(SortedByCount(KeysInOrder(all_topics, {}), all_topics), 5)

\* lines 369-370
Categories(cas) ==
    [i \in 1..Len(cas) |->
        Get(Get(cas[i], "analysis", EmptyDict), "content_category", "general")]

\* variant: of the keys of the largest count, the last in insertion order
PrimaryCategoryLastTie(categories) ==
    LET keys == KeysInOrder(categories, {})
        best == CHOOSE i \in 1..Len(keys) :
                    /\ \A j \in 1..Len(keys) :
                            CountOf(keys[j], categories) <= CountOf(keys[i], categories)
                    /\ \A j \in (i + 1)..Len(keys) :
                            CountOf(keys[j], categories) < CountOf(keys[i], categories)
    IN keys[best]

\* line 375: max(keys, key=count) is the first key, in insertion order, of the
\* largest count
PrimaryCategory(categories) ==
    LET keys == KeysInOrder(categories, {})
        best == CHOOSE i \in 1..Len(keys) :
                    /\ \A j \in 1..Len(keys) :
                            CountOf(keys[j], categories) <= CountOf(keys[i], categories)
                    /\ \A j \in 1..(i - 1) :
                            CountOf(keys[j], categories) < CountOf(keys[i], categories)
    IN keys[best]

\* variant: key_quotes is cut at 5 like main_alpha
MergeSeveralQuotesAtFive(cas) ==
    [main_alpha |-> DeduplicateAndRank(Collect(cas, "main_alpha"), 5),
     key_insights |-> DeduplicateAndRank(Collect(cas, "key_insights"), 6),
     actionable_takeaways |-> DeduplicateAndRank(Collect(cas, "actionable_takeaways"), 6),
     key_quotes |-> DeduplicateAndRank(Collect(cas, "key_quotes"), 5),
     content_category |-> PrimaryCategory(Categories(cas)),
     main_topics |-> MainTopics(Collect(cas, "main_topics")),
     confidence_score |-> AverageConfidence(PositiveScores(cas))]

\* lines 318-378: two or more partial results
MergeSeveral(cas) ==
    [main_alpha |-> DeduplicateAndRank(Collect(cas, "main_alpha"), 5),
     key_insights |-> DeduplicateAndRank(Collect(cas, "key_insights"), 6),
     actionable_takeaways |-> DeduplicateAndRank(Collect(cas, "actionable_takeaways"), 6),
     key_quotes |-> DeduplicateAndRank(Collect(cas, "key_quotes"), 4),
     content_category |-> PrimaryCategory(Categories(cas)),
     main_topics |-> MainTopics(Collect(cas, "main_topics")),
     confidence_score |-> AverageConfidence(PositiveScores(cas))]

\* lines 315-316: exactly one partial result; without the key 'analysis' line 316
\* raises KeyError and the except branch (line 383) returns {}
MergeOne(ca) == IF "analysis" \in DOMAIN ca THEN ca.analysis ELSE EmptyDict

\* Values of a partial result that are not what the merge expects.  A list of
\* strings is a sequence of sequences of one-character strings, so a sequence
\* that holds the entry <<"None">> is no such list: it stands for the value None
\* under a list key.  The item <<"int">> stands for a list item that is a number.
NoneValue == <<<<"None">>>>

NotAString == <<"int">>

ListKeys == {"main_alpha", "key_insights", "actionable_takeaways", "key_quotes"}

\* lines 339-355 raise: list.extend(None) is a TypeError (lines 342-345), and
\* item.lower() on a number is an AttributeError (line 396, called from lines
\* 352-355)
MergeRaises(cas) ==
    \/ \E i \in 1..Len(cas) : \E k \in ListKeys :
            Get(Get(cas[i], "analysis", EmptyDict), k, <<>>) = NoneValue
    \/ \E k \in ListKeys : \E j \in 1..Len(Collect(cas, k)) :
            Collect(cas, k)[j] = NotAString

\* variant: the fallback is the record of the last chunk
MergeFallbackLast(cas) ==
    IF cas # <<>> THEN Get(cas[Len(cas)], "analysis", EmptyDict) ELSE EmptyDict

\* lines 380-383: the except branch
MergeFallback(cas) ==
    IF cas # <<>> THEN Get(cas[1], "analysis", EmptyDict) ELSE EmptyDict

\* variant: a single partial result goes through the merge as well
MergeWithoutShortcut(cas) == IF cas = <<>> THEN EmptyDict ELSE MergeSeveral(cas)

\* merge_chunk_analyses
MergeChunkAnalyses(cas) ==
    IF cas = <<>> THEN EmptyDict
    ELSE IF Len(cas) = 1 THEN MergeOne(cas[1])
    ELSE IF MergeRaises(cas) THEN MergeFallback(cas)
    ELSE MergeSeveral(cas)

\* the analysis records the partial results are drawn from
AnalysisPool ==
    { [main_alpha |-> <<Words(<<"a", "b", "C", "d", "e">>)>>,
       key_insights |-> <<Words(<<"a", "b">>), <<"a", " ", " ", "b">>>>,
       actionable_takeaways |-> <<>>,
       key_quotes |-> <<Words(<<"a", "b">>),
                        Words(<<"a", "b", "C", "d", "e">>),
                        Words(<<"a", "b", "c", "d", "e", "f">>),
                        Words(<<"b", "c", "d", "e", "f">>),
                        Words(<<"a", "b", "c", "d", "e">>)>>,
       content_category |-> "business",
       main_topics |-> <<"ai", "crypto">>,
       confidence_score |-> [num |-> 8, den |-> 10]],
      [main_alpha |-> <<Words(<<"a", "b", "c", "d", "e", "f">>),
                        Words(<<"b", "c", "d", "e", "f">>)>>,
       key_insights |-> <<<<"a", "b", " ", "c">>>>,
       actionable_takeaways |-> <<<<" ", "f">>>>,
       key_quotes |-> <<>>,
       content_category |-> "technology",
       main_topics |-> <<"crypto", "crypto">>,
       confidence_score |-> [num |-> 0, den |-> 10]],
      [main_alpha |-> <<Words(<<"a", "b", "c", "d", "e">>)>>,
       main_topics |-> <<"macro", "ai">>,
       confidence_score |-> [num |-> 5, den |-> 10]],
      [key_quotes |-> <<Words(<<"b", "c", "d", "e", "f">>)>>,
       content_category |-> "technology",
       confidence_score |-> [num |-> 9, den |-> 10]],
      [main_alpha |-> <<<<"a">>, <<"b">>, <<"c">>, <<"d">>, <<"e">>, <<"f">>>>,
       key_insights |-> <<<<"a">>, <<"b">>, <<"c">>, <<"d">>, <<"e">>, <<"f">>, <<"g">>>>,
       actionable_takeaways |-> <<<<"a">>, <<"b">>, <<"c">>, <<"d">>, <<"e">>, <<"f">>, <<"g">>>>,
       key_quotes |-> <<<<"c">>, <<"d">>, <<"e">>, <<"f">>, <<"g">>>>,
       content_category |-> "investing",
       main_topics |-> <<"defi", "nft", "web3", "energy", "ai", "defi">>],
      [main_alpha |-> NoneValue,
       key_quotes |-> <<Words(<<"a", "b">>)>>,
       content_category |-> "business",
       confidence_score |-> [num |-> 7, den |-> 10]],
      [main_alpha |-> <<Words(<<"a", "b">>)>>,
       key_insights |-> <<Words(<<"a", "b">>), NotAString>>,
       main_topics |-> <<"ai">>,
       confidence_score |-> [num |-> 6, den |-> 10]] }

\* a partial result: a dict that holds the chunk's record under 'analysis', or a
\* dict without that key
PartialPool == {[analysis |-> a] : a \in AnalysisPool} \cup {[chunk_id |-> 1]}

MergeInit ==
    /\ chunk_analyses = <<>>
    /\ merged = EmptyDict
    /\ mpc = "build"

\* the caller collects the partial result of one more chunk
AddPartial ==
    /\ mpc = "build"
    /\ Len(chunk_analyses) < MaxPartials
    /\ \E ca \in PartialPool : chunk_analyses' = Append(chunk_analyses, ca)
    /\ UNCHANGED <<merged, mpc>>

\* a merge that empties the list it was given while it reads it
MergeConsuming ==
    /\ mpc = "build"
    /\ merged' = MergeChunkAnalyses(chunk_analyses)
    /\ mpc' = "done"
    /\ chunk_analyses' = <<>>

\* a call merge_chunk_analyses(chunk_analyses)
Merge ==
    /\ mpc = "build"
    /\ merged' = MergeChunkAnalyses(chunk_analyses)
    /\ mpc' = "done"
    /\ UNCHANGED chunk_analyses

SpecMergeInit == MergeInit /\ ChunkIdle /\ DedupIdle /\ AnalyzeIdle /\ OtherIdle

SpecMergeNext ==
    \/ AddPartial /\ UNCHANGED <<chunkVars, dedupVars, analyzeVars, otherVars>>
    \/ Merge /\ UNCHANGED <<chunkVars, dedupVars, analyzeVars, otherVars>>

SpecMerge == SpecMergeInit /\ [][SpecMergeNext]_vars

(***************************************************************************)
(* One ContentChunker used for chunk_transcript and merge_chunk_analyses   *)
(* in turn: the calls of the two methods interleave in any order on the    *)
(* same object.  The transcripts and partial results are drawn from a few  *)
(* of those of SpecChunk and SpecMerge.                                    *)
(***************************************************************************)
SharedTranscripts ==
    { <<"a">>,
      <<"a", ".", " ", "a">>,
      <<"a", "\n", "\n", "a">>,
      <<"a", " ", "a", "!", " ">> }

SharedPartials ==
    {ca \in PartialPool :
        "analysis" \in DOMAIN ca => Get(ca.analysis, "confidence_score", Zero).num \in {5, 9}}

\* the caller takes the merged record and starts the list of the next transcript
MergeReturn ==
    /\ mpc = "done"
    /\ chunk_analyses' = <<>>
    /\ merged' = EmptyDict
    /\ mpc' = "build"

SpecSharedInit == ChunkInit /\ MergeInit /\ DedupIdle /\ AnalyzeIdle /\ OtherIdle

SpecSharedNext ==
    \/ ChunkTranscriptIn(SharedTranscripts) /\ UNCHANGED <<dedupVars, mergeVars, analyzeVars, otherVars>>
    \/ ChunkReturn /\ UNCHANGED <<dedupVars, mergeVars, analyzeVars, otherVars>>
    \/ AddPartial /\ chunk_analyses'[Len(chunk_analyses')] \in SharedPartials
            /\ UNCHANGED <<chunkVars, dedupVars, analyzeVars, otherVars>>
    \/ Merge /\ UNCHANGED <<chunkVars, dedupVars, analyzeVars, otherVars>>
    \/ MergeReturn /\ UNCHANGED <<chunkVars, dedupVars, analyzeVars, otherVars>>

SpecShared == SpecSharedInit /\ [][SpecSharedNext]_vars

(***************************************************************************)
(* ContentChunker._chunk_simple, one step per iteration of its while loop. *)
(* transcript and max_chunk_size are the argument and the configuration,   *)
(* core is the local list `chunks`.                                        *)
(***************************************************************************)
\* variant: the cut is moved back to two characters before the end of the
\* last sentence-ending match
SimpleEndPosBeforeMatch(t, pos, m) ==
    LET cut == Min(pos + m, Len(t))
        search_start == Max(cut - SentenceWindow, pos)
        last == LastSentenceMatchEnd(SubSeq(t, search_start + 1, cut), 1, 0)
    IN IF cut < Len(t) /\ last > 0 THEN search_start + last - 2 ELSE cut

\* lines 236-248: end_pos of the window that starts at pos
SimpleEndPos(t, pos, m) ==
    LET cut == Min(pos + m, Len(t))
        search_start == Max(cut - SentenceWindow, pos)
        last == LastSentenceMatchEnd(SubSeq(t, search_start + 1, cut), 1, 0)
    IN IF cut < Len(t) /\ last > 0 THEN search_start + last ELSE cut

\* the transcripts of the loop: a word character, a sentence end, a space
SimpleStrings(n) == UNION {[1..k -> {"a", ".", " "}] : k \in 0..n}

SimpleInit ==
    /\ transcript \in SimpleStrings(MaxLen)
    /\ max_chunk_size \in 1..MaxChunk
    /\ overlap_size = 0
    /\ preserve_context = FALSE
    /\ fault = "none"
    /\ core = <<>>
    /\ chunks = <<>>
    /\ current_pos = 0
    /\ cpc = "loop"

\* lines 235-260: one iteration of the while loop
SimpleIteration ==
    /\ cpc = "loop"
    /\ current_pos < Len(transcript)
    /\ LET end_pos == SimpleEndPos(transcript, current_pos, max_chunk_size)
           chunk_text == Strip(SubSeq(transcript, current_pos + 1, end_pos))
       IN /\ core' = IF chunk_text # <<>>
                     THEN Append(core, [text |-> chunk_text, start_char |-> current_pos,
                                        end_char |-> end_pos,
                                        is_complete |-> (end_pos = Len(transcript))])
                     ELSE core
          /\ current_pos' = end_pos
    /\ UNCHANGED <<transcript, max_chunk_size, overlap_size, preserve_context, fault, chunks, cpc>>

\* lines 235, 262: the loop condition fails and the list is returned
SimpleReturn ==
    /\ cpc = "loop"
    /\ current_pos >= Len(transcript)
    /\ cpc' = "returned"
    /\ UNCHANGED <<transcript, max_chunk_size, overlap_size, preserve_context, fault, core,
                   chunks, current_pos>>

SpecSimpleInit ==
    SimpleInit /\ DedupIdle /\ MergeIdle /\ AnalyzeIdle /\ TrackerIdle /\ CommandIdle /\ RetryIdle

SpecSimpleNext ==
    \/ SimpleIteration /\ UNCHANGED <<dedupVars, mergeVars, analyzeVars, trackerVars, commandVars, retryVars>>
    \/ SimpleReturn /\ UNCHANGED <<dedupVars, mergeVars, analyzeVars, trackerVars, commandVars, retryVars>>

\* the loop is sequential code: an iteration that can run does run
SpecSimple == SpecSimpleInit /\ [][SpecSimpleNext]_vars /\ WF_vars(SpecSimpleNext)

(***************************************************************************)
(* ProgressTracker (utils/progress_tracker.py).  A datetime is "set" and  *)
(* an unset field is "None"; the display methods change no field.          *)
(***************************************************************************)
MaxChannels == 2   \* start_processing is given at most MaxChannels channels
MaxVideos == 1     \* the counters of the tracker go up to MaxVideos

\* the handles given to start_processing, and one that never is
ChannelNames == {"lexfridman", "allin"}
OtherChannel == "unlisted"

ChannelLists == UNION {[1..n -> ChannelNames] : n \in 0..MaxChannels}

\* lines 38-46
Pending ==
    [status |-> "pending", start_time |-> "None", end_time |-> "None", videos_found |-> 0,
     videos_processed |-> 0, success |-> FALSE, error |-> "None"]

Called(method_name, channel) == last_call' = [method |-> method_name, channel |-> channel]

\* reset
Reset ==
    /\ start_time' = "None"
    /\ end_time' = "None"
    /\ channels' = <<>>
    /\ channel_status' = <<>>
    /\ errors' = <<>>
    /\ current_channel' = "None"
    /\ total_videos_processed' = 0
    /\ successful_analyses' = 0
    /\ Called("reset", "None")

\* start_processing(chs)
StartProcessing(chs) ==
    /\ start_time' = "set"
    /\ end_time' = "None"
    /\ channels' = chs
    /\ channel_status' = [channel \in {chs[i] : i \in 1..Len(chs)} |-> Pending]
    /\ errors' = <<>>
    /\ current_channel' = "None"
    /\ total_videos_processed' = 0
    /\ successful_analyses' = 0
    /\ Called("start_processing", "None")

\* start_channel(channel)
StartChannel(channel) ==
    /\ current_channel' = channel
    /\ channel_status' =
            IF channel \in DOMAIN channel_status
            THEN [channel_status EXCEPT ![channel].status = "processing",
                                        ![channel].start_time = "set"]
            ELSE channel_status
    /\ Called("start_channel", channel)
    /\ UNCHANGED <<channels, errors, total_videos_processed, successful_analyses,
                   start_time, end_time>>

\* complete_channel(channel, success, error, videos_processed); error is "None"
\* or a message
CompleteChannel(channel, success, error, videos_processed) ==
    /\ IF channel \in DOMAIN channel_status
       THEN /\ channel_status' =
                    [channel_status EXCEPT
                        ![channel].status = "completed",
                        ![channel].end_time = "set",
                        ![channel].success = success,
                        ![channel].videos_processed = videos_processed,
                        ![channel].error = IF error # "None" THEN error ELSE @]
            /\ errors' = IF error # "None" THEN Append(errors, <<channel, error>>) ELSE errors
            /\ successful_analyses' =
                    IF success THEN successful_analyses + videos_processed
                    ELSE successful_analyses
            /\ total_videos_processed' = total_videos_processed + videos_processed
       ELSE UNCHANGED <<channel_status, errors, successful_analyses, total_videos_processed>>
    /\ current_channel' = "None"
    /\ Called("complete_channel", channel)
    /\ UNCHANGED <<channels, start_time, end_time>>

\* add_video_found(channel, count)
AddVideoFound(channel, count) ==
    /\ channel_status' =
            IF channel \in DOMAIN channel_status
            THEN [channel_status EXCEPT ![channel].videos_found = @ + count]
            ELSE channel_status
    /\ Called("add_video_found", channel)
    /\ UNCHANGED <<channels, errors, current_channel, total_videos_processed,
                   successful_analyses, start_time, end_time>>

\* finish_processing
FinishProcessing ==
    /\ end_time' = "set"
    /\ Called("finish_processing", "None")
    /\ UNCHANGED <<channels, channel_status, errors, current_channel,
                   total_videos_processed, successful_analyses, start_time>>

\* is_processing_complete for the fields chs (channels) and status (channel_status)
IsProcessingComplete(chs, status) ==
    IF chs = <<>> THEN FALSE
    ELSE \A channel \in DOMAIN status : status[channel].status = "completed"

\* the channels a caller may name
Callable == ChannelNames \cup {OtherChannel}

\* the caller's calls on one tracker, in any order
StartProcessingCall ==
    \E chs \in ChannelLists : StartProcessing(chs)

StartChannelCall ==
    \E channel \in Callable : StartChannel(channel)

CompleteChannelCall ==
    \E channel \in Callable, success \in BOOLEAN, error \in {"None", "No recent videos"},
       videos_processed \in 0..MaxVideos :
        /\ total_videos_processed + videos_processed <= MaxVideos
        /\ error # "None" => Len(errors) < MaxVideos
        /\ CompleteChannel(channel, success, error, videos_processed)

AddVideoFoundCall ==
    \E channel \in Callable :
        /\ channel \in DOMAIN channel_status => channel_status[channel].videos_found < MaxVideos
        /\ AddVideoFound(channel, 1)

TrackerInit == TrackerIdle

SpecTrackerInit ==
    TrackerInit /\ ChunkIdle /\ DedupIdle /\ MergeIdle /\ AnalyzeIdle /\ SimpleIdle /\ CommandIdle /\ RetryIdle

SpecTrackerNext ==
    \/ StartProcessingCall /\ UNCHANGED <<chunkVars, dedupVars, mergeVars, analyzeVars, simpleVars, commandVars, retryVars>>
    \/ StartChannelCall /\ UNCHANGED <<chunkVars, dedupVars, mergeVars, analyzeVars, simpleVars, commandVars, retryVars>>
    \/ CompleteChannelCall /\ UNCHANGED <<chunkVars, dedupVars, mergeVars, analyzeVars, simpleVars, commandVars, retryVars>>
    \/ AddVideoFoundCall /\ UNCHANGED <<chunkVars, dedupVars, mergeVars, analyzeVars, simpleVars, commandVars, retryVars>>
    \/ FinishProcessing /\ UNCHANGED <<chunkVars, dedupVars, mergeVars, analyzeVars, simpleVars, commandVars, retryVars>>
    \/ Reset /\ UNCHANGED <<chunkVars, dedupVars, mergeVars, analyzeVars, simpleVars, commandVars, retryVars>>

SpecTracker == SpecTrackerInit /\ [][SpecTrackerNext]_vars

(***************************************************************************)
(* PodcastSummaryCommand.execute_command (podcast_summary.py), one step    *)
(* per call on the progress tracker or on a collaborator.                  *)
(***************************************************************************)
\* an entry of tracker_calls
TrackerCall(method_name, channel, success, error) ==
    [method |-> method_name, channel |-> channel, success |-> success, error |-> error]

\* the subsequences of a list: what _validate_channels (lines 237-251) keeps
RECURSIVE SubLists(_)
SubLists(xs) ==
    IF xs = <<>> THEN {<<>>}
    ELSE LET rest == SubLists(Tail(xs))
         IN rest \cup {<<Head(xs)>> \o ys : ys \in rest}

CommandInit ==
    /\ args \in [channels : ChannelLists, dry_run : BOOLEAN]
    /\ valid_channels = <<>>
    /\ channel_index = 0
    /\ all_analyses = 0
    /\ tracker_calls = <<>>
    /\ result = "None"
    /\ epc = "start"

\* line 159
ExecStartProcessing ==
    /\ epc = "start"
    /\ StartProcessing(args.channels)
    /\ tracker_calls' = Append(tracker_calls, TrackerCall("start_processing", "None", FALSE, "None"))
    /\ epc' = "validate"
    /\ UNCHANGED <<args, valid_channels, channel_index, all_analyses, result>>

\* lines 165-177: validation, the two early returns, the start of the loop
ExecValidate ==
    /\ epc = "validate"
    /\ \E vs \in SubLists(args.channels) :
        /\ valid_channels' = vs
        /\ IF vs = <<>> THEN result' = "False" /\ epc' = "finally"
           ELSE IF args.dry_run THEN result' = "True" /\ epc' = "finally"
           ELSE result' = result /\ epc' = "loop"
    /\ channel_index' = 1
    /\ UNCHANGED <<args, all_analyses, tracker_calls, trackerVars>>

\* lines 179-181: the next channel is started
ExecStartChannel ==
    /\ epc = "loop"
    /\ channel_index <= Len(valid_channels)
    /\ StartChannel(valid_channels[channel_index])
    /\ tracker_calls' = Append(tracker_calls,
            TrackerCall("start_channel", valid_channels[channel_index], FALSE, "None"))
    /\ epc' = "videos"
    /\ UNCHANGED <<args, valid_channels, channel_index, all_analyses, result>>

\* lines 190-194: get_channel_videos returned no video
ExecNoVideos ==
    /\ epc = "videos"
    /\ CompleteChannel(valid_channels[channel_index], FALSE, "No recent videos", 0)
    /\ tracker_calls' = Append(tracker_calls,
            TrackerCall("complete_channel", valid_channels[channel_index], FALSE,
                        "No recent videos"))
    /\ channel_index' = channel_index + 1
    /\ epc' = "loop"
    /\ UNCHANGED <<args, valid_channels, all_analyses, result>>

\* lines 197-208: every video is processed, n of them give an analysis
ExecVideos ==
    /\ epc = "videos"
    /\ \E n \in 0..MaxVideos : all_analyses' = all_analyses + n
    /\ CompleteChannel(valid_channels[channel_index], TRUE, "None", 0)
    /\ tracker_calls' = Append(tracker_calls,
            TrackerCall("complete_channel", valid_channels[channel_index], TRUE, "None"))
    /\ channel_index' = channel_index + 1
    /\ epc' = "loop"
    /\ UNCHANGED <<args, valid_channels, result>>

\* variant: an exception while a channel is processed is only logged
ExecChannelRaisesUnreported ==
    /\ epc = "videos"
    /\ channel_index' = channel_index + 1
    /\ epc' = "loop"
    /\ UNCHANGED <<args, valid_channels, all_analyses, result, tracker_calls, trackerVars>>

\* lines 210-213: get_channel_videos raised
ExecChannelRaises ==
    /\ epc = "videos"
    /\ CompleteChannel(valid_channels[channel_index], FALSE, "exception", 0)
    /\ tracker_calls' = Append(tracker_calls,
            TrackerCall("complete_channel", valid_channels[channel_index], FALSE, "exception"))
    /\ channel_index' = channel_index + 1
    /\ epc' = "loop"
    /\ UNCHANGED <<args, valid_channels, all_analyses, result>>

\* lines 216-233: the output is generated, or not, or generating it raises
ExecOutput ==
    /\ epc = "loop"
    /\ channel_index > Len(valid_channels)
    /\ result' \in IF all_analyses > 0 THEN {"True", "False"} ELSE {"False"}
    /\ epc' = "finally"
    /\ UNCHANGED <<args, valid_channels, channel_index, all_analyses, tracker_calls, trackerVars>>

\* lines 234-235
ExecFinally ==
    /\ epc = "finally"
    /\ FinishProcessing
    /\ tracker_calls' = Append(tracker_calls, TrackerCall("finish_processing", "None", FALSE, "None"))
    /\ epc' = "returned"
    /\ UNCHANGED <<args, valid_channels, channel_index, all_analyses, result>>

SpecCommandInit ==
    CommandInit /\ TrackerInit /\ ChunkIdle /\ DedupIdle /\ MergeIdle /\ AnalyzeIdle /\ SimpleIdle /\ RetryIdle

SpecCommandNext ==
    \/ ExecStartProcessing /\ UNCHANGED <<chunkVars, dedupVars, mergeVars, analyzeVars, simpleVars, retryVars>>
    \/ ExecValidate /\ UNCHANGED <<chunkVars, dedupVars, mergeVars, analyzeVars, simpleVars, retryVars>>
    \/ ExecStartChannel /\ UNCHANGED <<chunkVars, dedupVars, mergeVars, analyzeVars, simpleVars, retryVars>>
    \/ ExecNoVideos /\ UNCHANGED <<chunkVars, dedupVars, mergeVars, analyzeVars, simpleVars, retryVars>>
    \/ ExecVideos /\ UNCHANGED <<chunkVars, dedupVars, mergeVars, analyzeVars, simpleVars, retryVars>>
    \/ ExecChannelRaises /\ UNCHANGED <<chunkVars, dedupVars, mergeVars, analyzeVars, simpleVars, retryVars>>
    \/ ExecOutput /\ UNCHANGED <<chunkVars, dedupVars, mergeVars, analyzeVars, simpleVars, retryVars>>
    \/ ExecFinally /\ UNCHANGED <<chunkVars, dedupVars, mergeVars, analyzeVars, simpleVars, retryVars>>

SpecCommand == SpecCommandInit /\ [][SpecCommandNext]_vars

(***************************************************************************)
(* retry_with_backoff (utils/error_handler.py), the wrapper it returns.    *)
(***************************************************************************)
MaxRetries == 3    \* max_retries ranges over 0..MaxRetries
MaxDelay == 2      \* base_delay ranges over 0..MaxDelay
MaxFactor == 3     \* backoff_factor ranges over 1..MaxFactor

\* x ** n
RECURSIVE Power(_, _)
Power(x, n) == IF n = 0 THEN 1 ELSE x * Power(x, n - 1)

\* variant: the exponent is the number of the coming attempt
DelayOfNextAttempt(base, factor, n) == base * Power(factor, n + 1)

\* line 316
Delay(base, factor, n) == base * Power(factor, n)

\* lines 296-305: the decorator's arguments, the wrapper entered
RetryInit ==
    /\ max_retries \in 0..MaxRetries
    /\ base_delay \in 0..MaxDelay
    /\ backoff_factor \in 1..MaxFactor
    /\ attempt = 0
    /\ last_exception = 0
    /\ func_calls = <<>>
    /\ delays = <<>>
    /\ outcome = [kind |-> "None", call |-> 0]
    /\ rpc = "loop"

\* lines 307-309: the call of this attempt returns
AttemptReturns ==
    /\ rpc = "loop" /\ attempt < max_retries
    /\ func_calls' = Append(func_calls, "returned")
    /\ outcome' = [kind |-> "return", call |-> Len(func_calls) + 1]
    /\ rpc' = "done"
    /\ UNCHANGED <<max_retries, base_delay, backoff_factor, attempt, last_exception, delays>>

\* lines 307-318: the call of this attempt raises
AttemptRaises ==
    /\ rpc = "loop" /\ attempt < max_retries
    /\ func_calls' = Append(func_calls, "raised")
    /\ last_exception' = Len(func_calls) + 1
    /\ IF attempt = max_retries - 1
       THEN /\ rpc' = "after"
            /\ UNCHANGED <<attempt, delays>>
       ELSE /\ delays' = Append(delays, Delay(base_delay, backoff_factor, attempt))
            /\ attempt' = attempt + 1
            /\ rpc' = "loop"
    /\ UNCHANGED <<max_retries, base_delay, backoff_factor, outcome>>

\* lines 307, 320-322: range(max_retries) is exhausted or was left by break
AfterLoop ==
    /\ \/ rpc = "after"
       \/ rpc = "loop" /\ attempt >= max_retries
    /\ outcome' = IF last_exception # 0
                  THEN [kind |-> "raise", call |-> last_exception]
                  ELSE [kind |-> "return None", call |-> 0]
    /\ rpc' = "done"
    /\ UNCHANGED <<max_retries, base_delay, backoff_factor, attempt, last_exception,
                   func_calls, delays>>

SpecRetryInit ==
    RetryInit /\ ChunkIdle /\ DedupIdle /\ MergeIdle /\ AnalyzeIdle /\ SimpleIdle
        /\ TrackerIdle /\ CommandIdle

SpecRetryNext ==
    \/ AttemptReturns /\ UNCHANGED <<chunkVars, dedupVars, mergeVars, analyzeVars, simpleVars, trackerVars, commandVars>>
    \/ AttemptRaises /\ UNCHANGED <<chunkVars, dedupVars, mergeVars, analyzeVars, simpleVars, trackerVars, commandVars>>
    \/ AfterLoop /\ UNCHANGED <<chunkVars, dedupVars, mergeVars, analyzeVars, simpleVars, trackerVars, commandVars>>

SpecRetry == SpecRetryInit /\ [][SpecRetryNext]_vars

(***************************************************************************)
(* ClaudeAnalyzer (claude_analyzer.py).  Here a text is a sequence of      *)
(* lines and a line is a string.  Every line of a transcript is one        *)
(* sentence that ends with a full stop, so no match of the patterns of     *)
(* the heuristic extraction runs from one line into the next, and          *)
(* re.findall on a text gives the matches of its lines, line after line.   *)
(* The matches of a pattern in a line, and what strip(), re.sub(r'\s+',    *)
(* ' ', .), lower(), capitalize() and len() make of a match, are tabled    *)
(* for the lines of the model.  A TLA+ string cannot hold a grave accent:   *)
(* the code fence of the prompt (line 95) is written ~~~ in the matches.   *)
(* A score is the fraction num / den.                                      *)
(***************************************************************************)
MaxSentences == 3  \* a transcript has at most MaxSentences lines

\* the blocks of the prepared context around the transcript (lines 59-74): the
\* metadata header, the heading of the transcript, and the task section made of
\* the separator, the heading "**Analysis Task:**" and the podcast_insights
\* prompt (lines 80-135)
VideoInformation == "**Video Information:**"

TranscriptMarker == "**Transcript:**"

AnalysisTask == "**Analysis Task:**"

\* the sentences transcripts are made of
SentencePool ==
    { "I believe the opportunity is a long term investment in public markets.",
      "The key is to write down every decision before you see the result.",
      "Try Notion for tracking your weekly revenue numbers.",
      "She said \"patience beats timing in every market cycle\" and smiled.",
      "Hello and welcome." }

Lines == SentencePool \cup {VideoInformation, TranscriptMarker, AnalysisTask}

\* lines 295-296
BusinessTerms == {"investment", "market", "business", "strategy", "company", "startup",
                  "growth", "revenue", "funding"}

TechTerms == {"technology", "ai", "data", "blockchain", "crypto", "digital", "platform",
              "software"}

\* the words counted in lines 299-302
Terms == BusinessTerms \cup TechTerms
            \cup {"invest", "investment", "portfolio", "crypto", "bitcoin", "ethereum", "defi"}

\* _prepare_analysis_context
PrepareAnalysisContext(transcript_text) ==
    <<VideoInformation, TranscriptMarker>> \o transcript_text \o <<AnalysisTask>>

\* line 273: re.findall(r'"([^"]*)"', .); text is quote.strip(), len its length
QuotedText ==
    [line \in Lines |-> [p \in 1..1 |->
        CASE line = "She said \"patience beats timing in every market cycle\" and smiled." /\ p = 1 ->
                <<[text |-> "patience beats timing in every market cycle", len |-> 43]>>
          [] line = "**Analysis Task:**" /\ p = 1 ->
                <<[text |-> "main_alpha", len |-> 10],
                  [text |-> "Specific actionable insight with investment/business implications", len |-> 65],
                  [text |-> "Another key strategic insight", len |-> 29],
                  [text |-> "key_insights", len |-> 12],
                  [text |-> "Important framework or concept explained", len |-> 40],
                  [text |-> "Significant trend or observation", len |-> 32],
                  [text |-> "Notable perspective or contrarian view", len |-> 38],
                  [text |-> "actionable_takeaways", len |-> 20],
                  [text |-> "Specific action readers can take", len |-> 32],
                  [text |-> "Tool, resource, or strategy to implement", len |-> 40],
                  [text |-> "Behavioral change or habit to adopt", len |-> 35],
                  [text |-> "key_quotes", len |-> 10],
                  [text |-> "Most impactful quote that captures a key idea", len |-> 45],
                  [text |-> "Another memorable quote with practical wisdom", len |-> 45],
                  [text |-> "content_category", len |-> 16],
                  [text |-> "business|technology|investing|personal_development|general", len |-> 58],
                  [text |-> "confidence_score", len |-> 16],
                  [text |-> "summary_length", len |-> 14],
                  [text |-> "detailed", len |-> 8],
                  [text |-> "main_topics", len |-> 11],
                  [text |-> "topic1", len |-> 6],
                  [text |-> "topic2", len |-> 6],
                  [text |-> "topic3", len |-> 6]>>
          [] OTHER -> <<>>]]

\* lines 279-289: re.findall of the six insight_patterns, matches stripped
StatementMatches ==
    [line \in Lines |-> [p \in 1..6 |->
        CASE line = "The key is to write down every decision before you see the result." /\ p = 2 ->
                <<"to write down every decision before you see the result.">>
          [] OTHER -> <<>>]]

\* lines 354-360 and 366-373: re.findall of the five alpha_patterns; len is the
\* length of the stripped match, keyword tells whether it holds an investment
\* keyword (line 363), text is the cleaned match capitalized, key is
\* insight.lower().strip()
AlphaMatches ==
    [line \in Lines |-> [p \in 1..5 |->
        CASE line = "I believe the opportunity is a long term investment in public markets." /\ p = 1 ->
                <<[text |-> "The opportunity is a long term investment in public markets", len |-> 59, keyword |-> TRUE, key |-> "the opportunity is a long term investment in public markets"]>>
          [] line = "I believe the opportunity is a long term investment in public markets." /\ p = 2 ->
                <<[text |-> "Is a long term investment in public markets", len |-> 43, keyword |-> TRUE, key |-> "is a long term investment in public markets"]>>
          [] OTHER -> <<>>]]

\* lines 376-387: re.findall of the three company_patterns, matches stripped
CompanyMatches ==
    [line \in Lines |-> [p \in 1..3 |->
        CASE line = "I believe the opportunity is a long term investment in public markets." /\ p = 2 ->
                <<[name |-> "opportunity", len |-> 11]>>
          [] line = "The key is to write down every decision before you see the result." /\ p = 2 ->
                <<[name |-> "key", len |-> 3]>>
          [] line = "**Analysis Task:**" /\ p = 2 ->
                <<[name |-> "task", len |-> 4]>>
          [] OTHER -> <<>>]]

\* lines 400-416: re.findall of the five insight_patterns; key is
\* insight.lower().strip()[:50]
InsightMatches ==
    [line \in Lines |-> [p \in 1..5 |->
        CASE line = "The key is to write down every decision before you see the result." /\ p = 1 ->
                <<[text |-> "To write down every decision before you see the result", len |-> 54, key |-> "to write down every decision before you see the re"]>>
          [] OTHER -> <<>>]]

\* lines 420-432: re.findall of the three concept_patterns; text is the cleaned
\* match in lower case
ConceptMatches ==
    [line \in Lines |-> [p \in 1..3 |->
        CASE line = "**Analysis Task:**" /\ p = 3 ->
                <<[text |-> "this: ~~~json { \"main_alpha\": [ \"specific actionable insight with investment/business implications\", \"another key strategic insight\" ],", len |-> 148]>>
          [] OTHER -> <<>>]]

\* lines 443-462: re.findall of the five action_patterns; key is
\* takeaway.lower().strip()[:30]
ActionMatches ==
    [line \in Lines |-> [p \in 1..5 |->
        CASE line = "Try Notion for tracking your weekly revenue numbers." /\ p = 1 ->
                <<[text |-> "Notion for tracking your weekly revenue numbers", len |-> 47, key |-> "notion for tracking your weekl"]>>
          [] line = "Try Notion for tracking your weekly revenue numbers." /\ p = 5 ->
                <<[text |-> "Ing your weekly revenue numbers", len |-> 31, key |-> "ing your weekly revenue number"]>>
          [] line = "**Analysis Task:**" /\ p = 1 ->
                <<[text |-> "Rize content**: is this primarily about business, technology, investing, personal development, etc", len |-> 98, key |-> "rize content**: is this primar"],
                  [text |-> "\", \"behavioral change or habit to adopt\" ], \"key_quotes\": [ \"most impactful quote that captures a key idea\", \"another memorable quote", len |-> 149, key |-> "\", \"behavioral change or habit"],
                  [text |-> "Ry\": \"business|technology|investing|personal_development|general\", \"confidence_score\": 0", len |-> 90, key |-> "ry\": \"business|technology|inve"],
                  [text |-> "Insights that would be valuable to entrepreneurs, investors, and knowledge workers", len |-> 82, key |-> "insights that would be valuabl"]>>
          [] line = "**Analysis Task:**" /\ p = 4 ->
                <<[text |-> "Ers can act on", len |-> 14, key |-> "ers can act on"],
                  [text |-> "Ers can take\", \"tool, resource, or strategy to implement\", \"behavioral change or habit to adopt\" ], \"key_quotes\": [ \"most impactful qu", len |-> 150, key |-> "ers can take\", \"tool, resource"]>>
          [] OTHER -> <<>>]]

\* lines 466-478: re.findall of the four tool_patterns, matches stripped
ToolMatches ==
    [line \in Lines |-> [p \in 1..4 |->
        CASE line = "Try Notion for tracking your weekly revenue numbers." /\ p = 2 ->
                <<[name |-> "Notion for tracking your w", len |-> 26]>>
          [] OTHER -> <<>>]]

\* line 266: words.count(term) for the words of a line
TermCount ==
    [line \in Lines |-> [term \in Terms |->
        CASE line = "I believe the opportunity is a long term investment in public markets." /\ term = "investment" -> 1
          [] line = "Try Notion for tracking your weekly revenue numbers." /\ term = "revenue" -> 1
          [] line = "She said \"patience beats timing in every market cycle\" and smiled." /\ term = "market" -> 1
          [] line = "**Analysis Task:**" /\ term = "strategy" -> 1
          [] OTHER -> 0]]

\* context.find("**Transcript:**"): the place of the first heading of the
\* transcript, 0 when the context has none (Python: -1)
Find(ctx) ==
    IF \E i \in 1..Len(ctx) : ctx[i] = TranscriptMarker
    THEN CHOOSE i \in 1..Len(ctx) :
            ctx[i] = TranscriptMarker /\ \A j \in 1..(i - 1) : ctx[j] # TranscriptMarker
    ELSE 0

\* line 262: everything after the heading of the transcript
TranscriptText(ctx) == SubSeq(ctx, Find(ctx) + 1, Len(ctx))

\* re.findall(pattern p of a table, text)
RECURSIVE FindAll(_, _, _)
FindAll(table, p, text) ==
    IF text = <<>> THEN <<>>
    ELSE table[Head(text)][p] \o FindAll(table, p, Tail(text))

\* lines 274-276
RECURSIVE QuoteLoop(_, _, _)
QuoteLoop(quoted_text, i, potential_quotes) ==
    IF i > Len(quoted_text) THEN potential_quotes
    ELSE QuoteLoop(quoted_text, i + 1,
            IF quoted_text[i].len > 15 /\ quoted_text[i].len < 200
            THEN Append(potential_quotes, quoted_text[i].text)
            ELSE potential_quotes)

\* lines 290-292
RECURSIVE StatementLoop(_, _, _)
StatementLoop(matches, i, potential_quotes) ==
    IF i > Len(matches) THEN potential_quotes
    ELSE StatementLoop(matches, i + 1,
            IF \E j \in 1..Len(potential_quotes) : potential_quotes[j] = matches[i]
            THEN potential_quotes
            ELSE Append(potential_quotes, matches[i]))

\* lines 288-292
RECURSIVE StatementPatterns(_, _, _)
StatementPatterns(text, p, potential_quotes) ==
    IF p > 6 THEN potential_quotes
    ELSE StatementPatterns(text, p + 1,
            StatementLoop(Prefix(FindAll(StatementMatches, p, text), 3), 1, potential_quotes))

\* lines 269-292
PotentialQuotes(text) ==
    StatementPatterns(text, 1, QuoteLoop(Prefix(FindAll(QuotedText, 1, text), 5), 1, <<>>))

\* words.count(term), line 266
RECURSIVE WordsCount(_, _)
WordsCount(term, text) ==
    IF text = <<>> THEN 0 ELSE TermCount[Head(text)][term] + WordsCount(term, Tail(text))

\* lines 298-303
TopicScores(text) ==
    [business |-> Cardinality({term \in BusinessTerms : WordsCount(term, text) > 0}),
     technology |-> Cardinality({term \in TechTerms : WordsCount(term, text) > 0}),
     investing |-> WordsCount("invest", text) + WordsCount("investment", text)
                    + WordsCount("portfolio", text),
     crypto |-> WordsCount("crypto", text) + WordsCount("bitcoin", text)
                    + WordsCount("ethereum", text) + WordsCount("defi", text)]

\* the keys of topic_scores in the order of the dict
TopicOrder == <<"business", "technology", "investing", "crypto">>

\* line 305: the first topic of the highest score, 'general' when every score is 0
MainCategory(text) ==
    LET topic_scores == TopicScores(text)
    IN IF \A i \in 1..4 : topic_scores[TopicOrder[i]] = 0 THEN "general"
       ELSE TopicOrder[CHOOSE i \in 1..4 :
                /\ \A j \in 1..4 : topic_scores[TopicOrder[j]] <= topic_scores[TopicOrder[i]]
                /\ \A j \in 1..(i - 1) : topic_scores[TopicOrder[j]] < topic_scores[TopicOrder[i]]]

\* line 308
RECURSIVE TopicsAbove(_, _)
TopicsAbove(topic_scores, i) ==
    IF i > 4 THEN <<>>
    ELSE (IF topic_scores[TopicOrder[i]] > 2 THEN <<TopicOrder[i]>> ELSE <<>>)
         \o TopicsAbove(topic_scores, i + 1)

ScoredTopics(text) ==
    IF TopicsAbove(TopicScores(text), 1) # <<>> THEN TopicsAbove(TopicScores(text), 1)
    ELSE <<"general">>

\* lines 367-373; acc.list is alpha_insights, acc.keys the lower-cased entries
RECURSIVE AlphaLoop(_, _, _)
AlphaLoop(matches, i, acc) ==
    IF i > Len(matches) THEN acc
    ELSE AlphaLoop(matches, i + 1,
            IF matches[i].len > 30 /\ matches[i].keyword /\ matches[i].key \notin acc.keys
            THEN [list |-> Append(acc.list, matches[i].text),
                  keys |-> acc.keys \cup {matches[i].key}]
            ELSE acc)

\* lines 365-373
RECURSIVE AlphaPatterns(_, _, _)
AlphaPatterns(text, p, acc) ==
    IF p > 5 THEN acc
    ELSE AlphaPatterns(text, p + 1,
            AlphaLoop(Prefix(FindAll(AlphaMatches, p, text), 10), 1, acc))

\* lines 384-389
RECURSIVE CompanyLoop(_, _, _)
CompanyLoop(matches, i, alpha_insights) ==
    IF i > Len(matches) THEN alpha_insights
    ELSE CompanyLoop(matches, i + 1,
            IF matches[i].len > 2 /\ matches[i].name \notin {"THE", "AND", "BUT", "FOR"}
            THEN Append(alpha_insights,
                        "Discussed investment perspective on " \o matches[i].name)
            ELSE alpha_insights)

\* lines 382-389
RECURSIVE CompanyPatterns(_, _, _)
CompanyPatterns(text, p, alpha_insights) ==
    IF p > 3 THEN alpha_insights
    ELSE CompanyPatterns(text, p + 1,
            CompanyLoop(Prefix(FindAll(CompanyMatches, p, text), 5), 1, alpha_insights))

NoCandidates == [list |-> <<>>, keys |-> {}]

\* _extract_alpha_from_transcript
ExtractAlpha(text) ==
    Prefix(CompanyPatterns(text, 1, AlphaPatterns(text, 1, NoCandidates).list), 8)

\* lines 410-417
RECURSIVE InsightLoop(_, _, _)
InsightLoop(matches, i, acc) ==
    IF i > Len(matches) THEN acc
    ELSE InsightLoop(matches, i + 1,
            IF matches[i].len > 25 /\ matches[i].key \notin acc.keys
            THEN [list |-> Append(acc.list, matches[i].text),
                  keys |-> acc.keys \cup {matches[i].key}]
            ELSE acc)

\* lines 408-417
RECURSIVE InsightPatterns(_, _, _)
InsightPatterns(text, p, acc) ==
    IF p > 5 THEN acc
    ELSE InsightPatterns(text, p + 1,
            InsightLoop(Prefix(FindAll(InsightMatches, p, text), 15), 1, acc))

\* lines 428-432
RECURSIVE ConceptLoop(_, _, _)
ConceptLoop(matches, i, insights) ==
    IF i > Len(matches) THEN insights
    ELSE ConceptLoop(matches, i + 1,
            IF matches[i].len > 20
            THEN Append(insights, "Key observation: " \o matches[i].text)
            ELSE insights)

\* lines 426-432
RECURSIVE ConceptPatterns(_, _, _)
ConceptPatterns(text, p, insights) ==
    IF p > 3 THEN insights
    ELSE ConceptPatterns(text, p + 1,
            ConceptLoop(Prefix(FindAll(ConceptMatches, p, text), 10), 1, insights))

\* _extract_key_insights_from_transcript
ExtractKeyInsights(text) ==
    Prefix(ConceptPatterns(text, 1, InsightPatterns(text, 1, NoCandidates).list), 10)

\* lines 456-463
RECURSIVE ActionLoop(_, _, _)
ActionLoop(matches, i, acc) ==
    IF i > Len(matches) THEN acc
    ELSE ActionLoop(matches, i + 1,
            IF matches[i].len > 15 /\ matches[i].key \notin acc.keys
            THEN [list |-> Append(acc.list, matches[i].text),
                  keys |-> acc.keys \cup {matches[i].key}]
            ELSE acc)

\* lines 454-463
RECURSIVE ActionPatterns(_, _, _)
ActionPatterns(text, p, acc) ==
    IF p > 5 THEN acc
    ELSE ActionPatterns(text, p + 1,
            ActionLoop(Prefix(FindAll(ActionMatches, p, text), 20), 1, acc))

\* lines 475-480
RECURSIVE ToolLoop(_, _, _)
ToolLoop(matches, i, takeaways) ==
    IF i > Len(matches) THEN takeaways
    ELSE ToolLoop(matches, i + 1,
            IF /\ matches[i].len > 3
               /\ matches[i].name \notin {"THE", "AND", "BUT", "FOR", "YOU", "CAN"}
            THEN Append(takeaways, "Explore " \o matches[i].name \o " for implementation")
            ELSE takeaways)

\* lines 473-480
RECURSIVE ToolPatterns(_, _, _)
ToolPatterns(text, p, takeaways) ==
    IF p > 4 THEN takeaways
    ELSE ToolPatterns(text, p + 1,
            ToolLoop(Prefix(FindAll(ToolMatches, p, text), 8), 1, takeaways))

\* _extract_actionable_takeaways_from_transcript
ExtractActionableTakeaways(text) ==
    Prefix(ToolPatterns(text, 1, ActionPatterns(text, 1, NoCandidates).list), 10)

\* lines 318-319, 322-324, 327-329, 332-333: the strings a category holds when
\* nothing was extracted for it
AlphaFallback(main_category) ==
    <<"Investment and strategic opportunities discussed in " \o main_category \o " sector",
      "Market analysis and alpha generation strategies for " \o main_category>>

InsightFallback(main_category) ==
    <<"Strategic frameworks and methodologies for " \o main_category,
      "Market trends and future outlook discussed",
      "Contrarian perspectives and unique viewpoints presented">>

TakeawayFallback ==
    <<"Strategies and implementation approaches from the discussion",
      "Tools and platforms mentioned for practical application",
      "Best practices and behavioral recommendations">>

QuoteFallback ==
    <<"Key insights from the discussion (transcript analysis)",
      "Notable perspectives shared by the speakers">>

\* variant: key_quotes is left empty when no quote was found
BasicAnalysisBareQuotes(text) ==
    LET potential_quotes == PotentialQuotes(text)
        main_category == MainCategory(text)
        alpha_insights == ExtractAlpha(text)
        key_insights == ExtractKeyInsights(text)
        actionable_takeaways == ExtractActionableTakeaways(text)
    IN [main_alpha |-> IF alpha_insights # <<>> THEN Prefix(alpha_insights, 3)
                       ELSE AlphaFallback(main_category),
        key_insights |-> IF key_insights # <<>> THEN Prefix(key_insights, 5)
                         ELSE InsightFallback(main_category),
        actionable_takeaways |-> IF actionable_takeaways # <<>>
                                 THEN Prefix(actionable_takeaways, 5)
                                 ELSE TakeawayFallback,
        key_quotes |-> Prefix(potential_quotes, 3),
        content_category |-> main_category,
        confidence_score |->
            IF alpha_insights # <<>> /\ key_insights # <<>> THEN [num |-> 8, den |-> 10]
            ELSE IF potential_quotes # <<>> THEN [num |-> 6, den |-> 10]
            ELSE [num |-> 4, den |-> 10],
        main_topics |-> Prefix(ScoredTopics(text), 5)]

\* lines 264-338: the record built from the text after the heading
BasicAnalysis(text) ==
    LET potential_quotes == PotentialQuotes(text)
        main_category == MainCategory(text)
        alpha_insights == ExtractAlpha(text)
        key_insights == ExtractKeyInsights(text)
        actionable_takeaways == ExtractActionableTakeaways(text)
    IN [main_alpha |-> IF alpha_insights # <<>> THEN Prefix(alpha_insights, 3)
                       ELSE AlphaFallback(main_category),
        key_insights |-> IF key_insights # <<>> THEN Prefix(key_insights, 5)
                         ELSE InsightFallback(main_category),
        actionable_takeaways |-> IF actionable_takeaways # <<>>
                                 THEN Prefix(actionable_takeaways, 5)
                                 ELSE TakeawayFallback,
        key_quotes |-> IF potential_quotes # <<>> THEN Prefix(potential_quotes, 3)
                       ELSE QuoteFallback,
        content_category |-> main_category,
        confidence_score |->
            IF alpha_insights # <<>> /\ key_insights # <<>> THEN [num |-> 8, den |-> 10]
            ELSE IF potential_quotes # <<>> THEN [num |-> 6, den |-> 10]
            ELSE [num |-> 4, den |-> 10],
        main_topics |-> Prefix(ScoredTopics(text), 5)]

\* _create_minimal_fallback
MinimalFallback ==
    [main_alpha |-> <<"Analysis requires manual review">>,
     key_insights |-> <<"Transcript content needs human analysis">>,
     actionable_takeaways |-> <<"Review content manually for actionable items">>,
     key_quotes |-> <<"Unable to extract quotes automatically">>,
     content_category |-> "general",
     confidence_score |-> Zero,
     main_topics |-> <<"analysis_failed">>]

\* the steps of lines 264-338 that scan the text, for the one that raises in a
\* call: the search for quotes (lines 268-292) and the three extractors
ExtractionSteps ==
    {"potential_quotes", "_extract_alpha_from_transcript",
     "_extract_key_insights_from_transcript",
     "_extract_actionable_takeaways_from_transcript"}

\* _create_basic_analysis_from_transcript(ctx) in a call where the step f raises
CreateBasicAnalysisFromTranscript(ctx, f) ==
    IF Find(ctx) = 0 THEN MinimalFallback
    ELSE IF f \in ExtractionSteps THEN MinimalFallback
    ELSE BasicAnalysis(TranscriptText(ctx))

\* what the Task tool does: the import fails (line 163), task.run raises (line
\* 212), returns nothing (line 208), returns text without the JSON object asked
\* for (line 205), or returns text that holds it (line 202)
Agents == {"unavailable", "raises", "no result", "unparsable", "parsed"}

\* the record parsed from the text of the agent, when there is one
AgentResponse ==
    [main_alpha |-> <<"Agent alpha">>,
     key_insights |-> <<"Agent insight">>,
     actionable_takeaways |-> <<>>,
     key_quotes |-> <<"Agent quote">>]

\* _launch_claude_agent
LaunchClaudeAgent(ctx, ag, f) ==
    IF ag = "parsed" THEN AgentResponse
    ELSE CreateBasicAnalysisFromTranscript(ctx, f)

\* _structure_analysis_results, the 'analysis' entry
StructureAnalysisResults(analysis_result) ==
    [main_alpha |-> Get(analysis_result, "main_alpha", <<>>),
     key_insights |-> Get(analysis_result, "key_insights", <<>>),
     actionable_takeaways |-> Get(analysis_result, "actionable_takeaways", <<>>),
     key_quotes |-> Get(analysis_result, "key_quotes", <<>>),
     content_category |-> Get(analysis_result, "content_category", "general"),
     main_topics |-> Get(analysis_result, "main_topics", <<>>),
     confidence_score |-> Get(analysis_result, "confidence_score", Zero)]

\* _create_fallback_analysis, the 'analysis' entry
FallbackAnalysis(md) ==
    [main_alpha |-> <<"Analysis failed - transcript may need manual review">>,
     key_insights |-> <<"Content from " \o Get(md, "title", "Unknown")
                            \o " requires manual analysis">>,
     actionable_takeaways |-> <<"Review transcript manually for actionable insights">>,
     key_quotes |-> <<"Unable to extract quotes automatically">>,
     content_category |-> "general",
     main_topics |-> <<"analysis_failed">>,
     confidence_score |-> Zero]

\* analyze_podcast_transcript(text, md) in a call where the step f raises
AnalyzePodcastTranscriptResult(text, md, ag, f) ==
    IF f = "_prepare_analysis_context"
    THEN [analysis |-> FallbackAnalysis(md), method |-> "fallback"]
    ELSE [analysis |-> StructureAnalysisResults(
                            LaunchClaudeAgent(PrepareAnalysisContext(text), ag, f)),
          method |-> "claude_agent"]

MetadataPool == {EmptyDict, [title |-> "Markets Weekly"]}

AnalyzeInit ==
    /\ transcript_lines = <<>>
    /\ video_metadata = EmptyDict
    /\ agent = "unavailable"
    /\ afault = "none"
    /\ context = <<>>
    /\ analysis = EmptyDict
    /\ method = "none"
    /\ apc = "build"

\* the caller reads one more line of the transcript
AddSentence ==
    /\ apc = "build"
    /\ Len(transcript_lines) < MaxSentences
    /\ \E line \in SentencePool : transcript_lines' = Append(transcript_lines, line)
    /\ UNCHANGED <<video_metadata, agent, afault, context, analysis, method, apc>>

\* a call analyzer.analyze_podcast_transcript(transcript, video_metadata)
AnalyzePodcastTranscript ==
    /\ apc = "build"
    /\ \E md \in MetadataPool, ag \in Agents,
          f \in ExtractionSteps \cup {"_prepare_analysis_context", "none"} :
        /\ f \in ExtractionSteps => ag # "parsed"
        /\ video_metadata' = md
        /\ agent' = ag
        /\ afault' = f
        /\ context' = IF f = "_prepare_analysis_context" THEN <<>>
                      ELSE PrepareAnalysisContext(transcript_lines)
        /\ analysis' = AnalyzePodcastTranscriptResult(transcript_lines, md, ag, f).analysis
        /\ method' = AnalyzePodcastTranscriptResult(transcript_lines, md, ag, f).method
    /\ apc' = "analyzed"
    /\ UNCHANGED transcript_lines

\* a call analyzer._create_basic_analysis_from_transcript(ctx) on a text without
\* the heading of the transcript, on the heading and the transcript, or on a
\* prepared context
CreateBasicAnalysis ==
    /\ apc = "build"
    /\ \E ctx \in {transcript_lines, <<TranscriptMarker>> \o transcript_lines,
                   PrepareAnalysisContext(transcript_lines)},
          f \in ExtractionSteps \cup {"none"} :
        /\ f \in ExtractionSteps => Find(ctx) > 0
        /\ afault' = f
        /\ context' = ctx
        /\ analysis' = CreateBasicAnalysisFromTranscript(ctx, f)
    /\ method' = "none"
    /\ apc' = "extracted"
    /\ UNCHANGED <<transcript_lines, video_metadata, agent>>

SpecAnalyzeInit == AnalyzeInit /\ ChunkIdle /\ DedupIdle /\ MergeIdle /\ OtherIdle

SpecAnalyzeNext ==
    \/ AddSentence /\ UNCHANGED <<chunkVars, dedupVars, mergeVars, otherVars>>
    \/ AnalyzePodcastTranscript /\ UNCHANGED <<chunkVars, dedupVars, mergeVars, otherVars>>
    \/ CreateBasicAnalysis /\ UNCHANGED <<chunkVars, dedupVars, mergeVars, otherVars>>

SpecAnalyze == SpecAnalyzeInit /\ [][SpecAnalyzeNext]_vars

(***************************************************************************)
(* Properties of chunk_transcript, checked under SpecChunk.                *)
(***************************************************************************)
RECURSIVE Concat(_)
Concat(texts) == IF texts = <<>> THEN <<>> ELSE Head(texts) \o Concat(Tail(texts))

IsNotSpace(c) == c \notin WS

\* the characters of s that are not whitespace, in order
NonSpace(s) == SelectSeq(s, IsNotSpace)

IsSuffix(x, s) == Len(x) <= Len(s) /\ SubSeq(s, Len(s) - Len(x) + 1, Len(s)) = x

IsSingleWord(s) == s # <<>> /\ \A i \in 1..Len(s) : s[i] \notin WS

\* C1: the core texts of the returned segments, concatenated in chunk_id order,
\* hold the non-whitespace characters of the transcript, all of them, unchanged
\* and in order.
C1_ChunkCoverage ==
    cpc = "done" => NonSpace(Concat(core)) = NonSpace(transcript)

C3_Passthrough ==
    cpc = "done" /\ Len(transcript) <= max_chunk_size =>
        /\ Len(chunks) = 1
        /\ chunks[1].text = transcript
        /\ chunks[1].chunk_id = 1
        /\ chunks[1].start_char = 0
        /\ chunks[1].end_char = Len(transcript)
        /\ chunks[1].is_complete = TRUE
        /\ "error" \notin DOMAIN chunks[1]
        /\ transcript = <<>> => chunks[1].text = <<>> /\ chunks[1].word_count = 0

\* a short transcript with whitespace at both ends, no context preservation, and
\* an overlap configured
C3_Witness ==
    /\ cpc = "done"
    /\ Len(transcript) > 1 /\ Len(transcript) <= max_chunk_size
    /\ transcript[1] \in WS /\ transcript[Len(transcript)] \in WS
    /\ ~preserve_context /\ overlap_size > 0
    /\ chunks[1].text = transcript

\* C4: when a splitting helper raises, chunk_transcript returns exactly one
\* segment: the original transcript, chunk_id 1, start_char 0, end_char
\* len(transcript), is_complete true, tagged with 'error'; nothing of a partly
\* built list is returned.
C4_ErrorFallback ==
    cpc = "done" /\ fault # "none" =>
        /\ Len(chunks) = 1
        /\ chunks[1].text = transcript
        /\ chunks[1].chunk_id = 1
        /\ chunks[1].start_char = 0
        /\ chunks[1].end_char = Len(transcript)
        /\ chunks[1].is_complete = TRUE
        /\ "error" \in DOMAIN chunks[1]

\* _split_by_words raises after paragraph and sentence splitting have run
C4_Witness ==
    /\ cpc = "done" /\ fault = "_split_by_words"
    /\ Len(transcript) > max_chunk_size
    /\ Len(chunks) = 1 /\ chunks[1].error = "_split_by_words"

\* C5: with overlap_size > 0 and more than one segment returned, the first
\* segment has no overlap and every later segment has has_overlap = true and a
\* text made of a suffix of the previous segment's text, the continuation
\* marker, and its own core text; for both values of preserve_context.
C5_OverlapBothModes ==
    cpc = "done" /\ fault = "none" /\ overlap_size > 0 /\ Len(chunks) > 1 =>
        /\ ~chunks[1].has_overlap
        /\ \A i \in 2..Len(chunks) :
            /\ chunks[i].has_overlap
            /\ \E k \in 0..Len(chunks[i - 1].text) :
                chunks[i].text =
                    SubSeq(chunks[i - 1].text, Len(chunks[i - 1].text) - k + 1,
                           Len(chunks[i - 1].text))
                    \o Marker \o core[i]

\* the cut at offset e of the transcript lands on a sentence end: a match of
\* sentence_endings ends there
EndsOnSentenceEnd(t, e) == \E j \in 1..Len(t) : SentenceMatchEnd(t, j) = e + 1

\* the cut at offset e of the transcript falls inside a word
CutsWord(t, e) == e >= 1 /\ e < Len(t) /\ t[e] \notin WS /\ t[e + 1] \notin WS

\* C21: in every result of a call where no helper raises, the last segment,
\* which ends where the transcript ends (the last piece of a split paragraph
\* included), has is_complete true; and without context preservation a segment
\* whose window ends at the end of the transcript or on a sentence end has
\* is_complete true, one whose window is cut inside a word has it false.
C21_IsComplete ==
    cpc = "done" /\ fault = "none" /\ chunks # <<>> =>
        /\ chunks[Len(chunks)].is_complete
        /\ ~preserve_context =>
            \A i \in 1..Len(chunks) :
                /\ (chunks[i].end_char = Len(transcript)
                        \/ EndsOnSentenceEnd(transcript, chunks[i].end_char))
                    => chunks[i].is_complete
                /\ CutsWord(transcript, chunks[i].end_char) => ~chunks[i].is_complete

\* C22: every returned segment with has_overlap = true carries the length of
\* the injected overlap under 'overlap_size', and end_char - start_char less
\* that length is the length of the segment's core text.
C22_OverlapLength ==
    cpc = "done" /\ fault = "none" =>
        \A i \in 1..Len(chunks) :
            "has_overlap" \in DOMAIN chunks[i] /\ chunks[i].has_overlap =>
                /\ "overlap_size" \in DOMAIN chunks[i]
                /\ chunks[i].end_char - chunks[i].start_char - chunks[i].overlap_size
                        = Len(core[i])

\* C24: chunk_transcript returns at least one segment for every transcript, in
\* both modes, and the chunk_ids of the returned segments are 1..n in order.
C24_AtLeastOneSegment ==
    cpc = "done" =>
        /\ Len(chunks) >= 1
        /\ \A i \in 1..Len(chunks) : chunks[i].chunk_id = i

\* the last k characters of s
Suffix(s, k) == SubSeq(s, Len(s) - k + 1, Len(s))

\* C27: where _add_overlap_to_chunks has run, the first segment is returned
\* as it was, and every later segment is an overlap, the marker and its own
\* core text, the overlap being a suffix of at most overlap_size characters of
\* the core text of the segment before it, as that text was before it received
\* an overlap of its own.
C27_OverlapFromCore ==
    cpc = "done" /\ fault = "none" /\ preserve_context /\ overlap_size > 0
            /\ Len(chunks) > 1 =>
        /\ chunks[1].text = core[1]
        /\ ~chunks[1].has_overlap
        /\ \A i \in 2..Len(chunks) :
            /\ chunks[i].has_overlap
            /\ \E k \in 0..Min(overlap_size, Len(core[i - 1])) :
                    chunks[i].text = Suffix(core[i - 1], k) \o Marker \o core[i]

\* three segments, the second shorter than overlap_size: the third takes the
\* whole second core text as its overlap and nothing of the overlap the second
\* received
C27_Witness ==
    /\ cpc = "done" /\ fault = "none" /\ preserve_context /\ overlap_size > 0
    /\ Len(chunks) >= 3
    /\ Len(core[2]) < overlap_size
    /\ chunks[2].text # core[2]
    /\ chunks[3].text = core[2] \o Marker \o core[3]

(***************************************************************************)
(* Properties of the loop of _chunk_simple, checked under SpecSimple.      *)
(***************************************************************************)
\* the spans of the list are disjoint and in increasing order
SpansIncrease(cs) ==
    /\ \A i \in 1..Len(cs) : cs[i].start_char < cs[i].end_char
    /\ \A i \in 1..(Len(cs) - 1) : cs[i].end_char <= cs[i + 1].start_char

\* C25: with max_chunk_size >= 1 the while loop of _chunk_simple terminates
\* for every transcript: every iteration strictly increases current_pos, also
\* when the cut is moved back to a sentence end, the loop ends with
\* current_pos = len(transcript), and the spans [start_char, end_char) of the
\* emitted segments are disjoint and in increasing order.
C25_SimpleTerminates ==
    /\ [][cpc' = "loop" => current_pos' > current_pos]_vars
    /\ [](cpc = "returned" => current_pos = Len(transcript))
    /\ [](SpansIncrease(core))
    /\ <>(cpc = "returned")

\* the loop has ended after a first window whose cut was moved back to a
\* sentence end before the limit, and a later window
C25_Witness ==
    /\ cpc = "returned" /\ current_pos = Len(transcript)
    /\ Len(core) >= 2
    /\ core[1].end_char < max_chunk_size
    /\ EndsOnSentenceEnd(transcript, core[1].end_char)

(***************************************************************************)
(* Properties of _deduplicate_and_rank, checked under SpecDedup.           *)
(***************************************************************************)
\* intersection size over the larger size > 0.8, on lower-cased word sets
NearDuplicate(x, y) ==
    LET wx == WordSet(Lower(x))
        wy == WordSet(Lower(y))
    IN 5 * Cardinality(wx \cap wy) > 4 * Max(Cardinality(wx), Cardinality(wy))

\* the indices K of xs, ascending
RECURSIVE Ascending(_)
Ascending(K) ==
    IF K = {} THEN <<>>
    ELSE LET lo == CHOOSE i \in K : \A j \in K : i <= j
         IN <<lo>> \o Ascending(K \ {lo})

AtIndices(xs, K) == [n \in 1..Cardinality(K) |-> xs[Ascending(K)[n]]]

\* x is in place i of xs
Occurrences(x, xs) == Cardinality({i \in 1..Len(xs) : xs[i] = x})

KeyAtLeast(x, y) ==
    \/ WordCount(x) > WordCount(y)
    \/ WordCount(x) = WordCount(y) /\ Len(x) >= Len(y)

C7_Idempotent ==
    dpc = "twice" => reranked = ranked

\* C7, amended: for max_items >= 0 a second call on the result of the first
\* returns the same items in the same order.
C7_IdempotentNonNegativeCap ==
    dpc = "twice" /\ max_items >= 0 => reranked = ranked

\* the first call dropped or cut something and returned at least two items of
\* equal key, and the second call returned the same list
C7_Witness ==
    /\ dpc = "twice" /\ max_items >= 2
    /\ Len(ranked) = 2 /\ Len(ranked) < Len(items)
    /\ ranked[1] # ranked[2]
    /\ KeyAtLeast(ranked[2], ranked[1])
    /\ reranked = ranked

\* C8: every adjacent pair (a, b) of the returned list has
\* (words(a), len(a)) >= (words(b), len(b)) lexicographically.
C8_RankedOrder ==
    dpc # "build" =>
        \A i \in 1..(Len(ranked) - 1) : KeyAtLeast(ranked[i], ranked[i + 1])

\* the sort moved an item forward on the character length alone
C8_Witness ==
    /\ dpc = "once"
    /\ Len(ranked) >= 2 /\ Len(unique) >= 2
    /\ ranked[1] = unique[2] /\ ranked[2] = unique[1]
    /\ WordCount(ranked[1]) = WordCount(ranked[2])
    /\ Len(ranked[1]) > Len(ranked[2])

\* C9: for max_items >= 0 the returned list has at most max_items entries, each
\* an item of the input, as often at most as it was kept; an empty input gives an
\* empty list; only the cap cuts kept items, and every kept item that is cut
\* ranks no higher than every returned item.
C9_CapAndProvenance ==
    dpc # "build" /\ max_items >= 0 =>
        /\ Len(ranked) <= max_items
        /\ Len(ranked) = Min(max_items, Len(unique))
        /\ \A i \in 1..Len(ranked) : \E j \in 1..Len(items) : ranked[i] = items[j]
        /\ \A i \in 1..Len(ranked) : Occurrences(ranked[i], ranked) <= Occurrences(ranked[i], unique)
        /\ items = <<>> => ranked = <<>>
        /\ \A i \in 1..Len(unique) :
            Occurrences(unique[i], ranked) < Occurrences(unique[i], unique) =>
                \A j \in 1..Len(ranked) : KeyAtLeast(ranked[j], unique[i])

\* the cap cut a kept item that came first in the input
C9_Witness ==
    /\ dpc = "once" /\ max_items >= 1
    /\ Len(unique) > max_items /\ Len(ranked) = max_items
    /\ Occurrences(unique[1], ranked) = 0

(***************************************************************************)
(* Properties of the iteration of seen_lower, checked under SpecDedupOrder.*)
(***************************************************************************)
\* C26: two runs of _deduplicate_and_rank on the same items and max_items
\* return the same list, in whatever order each run iterates the set of the
\* items already accepted; the list is the one the order-free reading of the
\* duplicate check gives.
C26_OrderIndependent ==
    /\ dpc = "twice" => reranked = ranked
    /\ dpc # "build" => ranked = DeduplicateAndRank(items, max_items)

\* two items were accepted, unlike each other, and the third was dropped as a
\* duplicate of the second alone: whether the scan meets the second item first
\* or last depends on the order of the set
C26_Witness ==
    /\ dpc = "twice" /\ reranked = ranked
    /\ Len(items) = 3 /\ Len(unique) = 2
    /\ unique = SubSeq(items, 1, 2)
    /\ Similar(Strip(Lower(items[3])), Strip(Lower(items[2])))
    /\ ~Similar(Strip(Lower(items[3])), Strip(Lower(items[1])))
    /\ max_items = MaxCap

(***************************************************************************)
(* Properties of merge_chunk_analyses, checked under SpecMerge.            *)
(***************************************************************************)
\* C10: merging exactly one partial result returns its analysis record as it
\* is: same keys, same lists in the same order, same topics, score and category.
C10_MergeIdentity ==
    mpc = "done" /\ Len(chunk_analyses) = 1 /\ "analysis" \in DOMAIN chunk_analyses[1] =>
        /\ DOMAIN merged = DOMAIN chunk_analyses[1].analysis
        /\ \A k \in {"main_alpha", "key_insights", "actionable_takeaways", "key_quotes",
                     "main_topics"} \cap DOMAIN merged :
                merged[k] = chunk_analyses[1].analysis[k]
        /\ merged = chunk_analyses[1].analysis

\* the one partial holds five key_quotes, near-duplicates among them, not in
\* rank order, and all five come back
C10_Witness ==
    /\ mpc = "done" /\ Len(chunk_analyses) = 1
    /\ "analysis" \in DOMAIN chunk_analyses[1]
    /\ "key_quotes" \in DOMAIN merged
    /\ Len(merged.key_quotes) = 5
    /\ NearDuplicate(merged.key_quotes[2], merged.key_quotes[3])
    /\ ~KeyAtLeast(merged.key_quotes[1], merged.key_quotes[2])

\* the record a partial result carries, {} when it carries none
AnalysisOf(ca) == Get(ca, "analysis", EmptyDict)

\* the candidates of one category over all chunks, in chunk order
CandidatesOf(cas, k) ==
    Concat([i \in 1..Len(cas) |-> Get(AnalysisOf(cas[i]), k, <<>>)])

IsListOfStrings(v) == v # NoneValue /\ \A j \in 1..Len(v) : v[j] # NotAString

\* every category value of every partial result is a list of strings
WellFormed(cas) ==
    \A i \in 1..Len(cas) : \A k \in ListKeys :
        IsListOfStrings(Get(AnalysisOf(cas[i]), k, <<>>))

CapOf == [main_alpha |-> 5, key_insights |-> 6, actionable_takeaways |-> 6,
          key_quotes |-> 4]

\* C11: for two or more well-formed partial results, each category list of the
\* merged record is _deduplicate_and_rank of that category's candidates over all
\* chunks in chunk order, with caps 5, 6, 6 and 4; no two entries of a merged
\* list are near-duplicates, the candidate of the earlier chunk being the one
\* that stays.
C11_MergedCategories ==
    mpc = "done" /\ Len(chunk_analyses) >= 2 /\ WellFormed(chunk_analyses) =>
        \A k \in ListKeys :
            /\ k \in DOMAIN merged
            /\ merged[k] = DeduplicateAndRank(CandidatesOf(chunk_analyses, k), CapOf[k])
            /\ \A i, j \in 1..Len(merged[k]) :
                    i # j => ~NearDuplicate(merged[k][i], merged[k][j])

\* the first chunk holds "a b C d e", the second its longer near-duplicate
\* "a b c d e f", which would rank first; the earlier one is in the merged list
\* and the later one is not
C11_Witness ==
    /\ mpc = "done" /\ Len(chunk_analyses) = 2 /\ WellFormed(chunk_analyses)
    /\ Get(AnalysisOf(chunk_analyses[1]), "main_alpha", <<>>)
            = <<Words(<<"a", "b", "C", "d", "e">>)>>
    /\ Get(AnalysisOf(chunk_analyses[2]), "main_alpha", <<>>)
            = <<Words(<<"a", "b", "c", "d", "e", "f">>), Words(<<"b", "c", "d", "e", "f">>)>>
    /\ merged.main_alpha
            = <<Words(<<"a", "b", "C", "d", "e">>), Words(<<"b", "c", "d", "e", "f">>)>>

\* the four category lists of a record are within the caps
WithinCaps(r) == \A k \in ListKeys : Len(Get(r, k, <<>>)) <= CapOf[k]

\* C12, as claimed: every record returned by merge_chunk_analyses, for one
\* partial result, for several and for the error fallback, has at most 5
\* main_alpha, 6 key_insights, 6 actionable_takeaways and 4 key_quotes.
C12_CapsAlways ==
    mpc = "done" => WithinCaps(merged)

\* C12, amended: the returned record is within the caps when two or more
\* well-formed partial results were merged, and otherwise (one partial result,
\* the error fallback) when the record of the first partial result is.
C12_CapsMergedOrGiven ==
    /\ mpc = "done"
    /\ \/ Len(chunk_analyses) >= 2 /\ WellFormed(chunk_analyses)
       \/ chunk_analyses = <<>>
       \/ chunk_analyses # <<>> /\ WithinCaps(AnalysisOf(chunk_analyses[1]))
    => WithinCaps(merged)

\* a merge of several partial results that kept more key_quotes apart than the
\* cap of 4 allows and returned 4
C12_Witness ==
    /\ mpc = "done" /\ Len(chunk_analyses) >= 2 /\ WellFormed(chunk_analyses)
    /\ Len(UniqueItems(CandidatesOf(chunk_analyses, "key_quotes"))) > 4
    /\ Len(merged.key_quotes) = 4
    /\ ~WithinCaps(AnalysisOf(chunk_analyses[1]))

\* the place where x is seen first in xs
FirstSeen(x, xs) == CHOOSE i \in 1..Len(xs) : xs[i] = x /\ \A j \in 1..(i - 1) : xs[j] # x

\* x comes before y: more mentions, or as many and seen first
Outranks(x, y, xs) ==
    \/ Occurrences(x, xs) > Occurrences(y, xs)
    \/ Occurrences(x, xs) = Occurrences(y, xs) /\ FirstSeen(x, xs) < FirstSeen(y, xs)

\* C13: for two or more well-formed partial results, main_topics of the merged
\* record holds min(5, number of distinct topics) distinct topics of the chunks;
\* each entry has more mentions over all chunks than the next, or as many and
\* was seen first in chunk order, and the same holds between every entry and
\* every topic that was cut.
C13_MainTopics ==
    mpc = "done" /\ Len(chunk_analyses) >= 2 /\ WellFormed(chunk_analyses) =>
        LET all_topics == CandidatesOf(chunk_analyses, "main_topics")
            topics == merged.main_topics
            mentioned == {all_topics[i] : i \in 1..Len(all_topics)}
            returned == {topics[i] : i \in 1..Len(topics)}
        IN /\ Len(topics) = Min(5, Cardinality(mentioned))
           /\ Cardinality(returned) = Len(topics)
           /\ returned \subseteq mentioned
           /\ \A i \in 1..(Len(topics) - 1) : Outranks(topics[i], topics[i + 1], all_topics)
           /\ \A t \in mentioned \ returned : \A i \in 1..Len(topics) :
                    Outranks(topics[i], t, all_topics)

\* more than five topics were mentioned, a topic seen later moved ahead of an
\* earlier one on its count, and the topic that was cut has as many mentions as
\* the last one returned
C13_Witness ==
    /\ mpc = "done" /\ Len(chunk_analyses) >= 2 /\ WellFormed(chunk_analyses)
    /\ LET all_topics == CandidatesOf(chunk_analyses, "main_topics")
           topics == merged.main_topics
       IN /\ Len(topics) = 5
          /\ \E i \in 1..4 : FirstSeen(topics[i], all_topics) > FirstSeen(topics[i + 1], all_topics)
          /\ \E j \in 1..Len(all_topics) :
                /\ \A i \in 1..5 : topics[i] # all_topics[j]
                /\ Occurrences(all_topics[j], all_topics) = Occurrences(topics[5], all_topics)

\* the score of a chunk, 0 when its record has none
ScoreOf(ca) == Get(AnalysisOf(ca), "confidence_score", Zero)

\* the exact sum of the scores of the chunks at the indices K
RECURSIVE ScoreSum(_, _)
ScoreSum(cas, K) ==
    IF K = {} THEN Zero
    ELSE LET i == CHOOSE n \in K : TRUE
             r == ScoreSum(cas, K \ {i})
         IN [num |-> ScoreOf(cas[i]).num * r.den + r.num * ScoreOf(cas[i]).den,
             den |-> ScoreOf(cas[i]).den * r.den]

\* C14: for two or more well-formed partial results, the merged confidence_score
\* times the number of chunks with a score > 0 equals the sum of those scores;
\* it is 0 when no chunk has a score > 0.
C14_MeanOfPositiveScores ==
    mpc = "done" /\ Len(chunk_analyses) >= 2 /\ WellFormed(chunk_analyses) =>
        LET positive == {i \in 1..Len(chunk_analyses) : ScoreOf(chunk_analyses[i]).num > 0}
            total == ScoreSum(chunk_analyses, positive)
            score == merged.confidence_score
        IN /\ score.den > 0
           /\ positive = {} => score.num = 0
           /\ positive # {} =>
                score.num * (total.den * Cardinality(positive)) = total.num * score.den

\* two chunks with the scores 0.8 and 0.5 and one with the score 0: the mean is
\* taken over the two
C14_Witness ==
    /\ mpc = "done" /\ Len(chunk_analyses) = 3 /\ WellFormed(chunk_analyses)
    /\ Cardinality({i \in 1..3 : ScoreOf(chunk_analyses[i]).num > 0}) = 2
    /\ \E i \in 1..3 : /\ "confidence_score" \in DOMAIN AnalysisOf(chunk_analyses[i])
                       /\ ScoreOf(chunk_analyses[i]).num = 0
    /\ merged.confidence_score.num * 10 * 2 = (8 + 5) * merged.confidence_score.den

\* the label of each chunk, 'general' for a chunk that carries none
Labels(cas) ==
    [i \in 1..Len(cas) |-> Get(AnalysisOf(cas[i]), "content_category", "general")]

\* C15: for two or more well-formed partial results, no label is carried by more
\* chunks than the merged content_category, and every other label carried by as
\* many chunks occurs first at a later chunk.
C15_PrimaryCategory ==
    mpc = "done" /\ Len(chunk_analyses) >= 2 /\ WellFormed(chunk_analyses) =>
        LET labels == Labels(chunk_analyses)
            chosen == merged.content_category
        IN /\ \E i \in 1..Len(labels) : labels[i] = chosen
           /\ \A i \in 1..Len(labels) :
                labels[i] # chosen => Outranks(chosen, labels[i], labels)

\* three chunks; the label of the first is carried once, as often as another,
\* and is chosen
C15_Witness ==
    /\ mpc = "done" /\ Len(chunk_analyses) = 3 /\ WellFormed(chunk_analyses)
    /\ LET labels == Labels(chunk_analyses)
       IN /\ Cardinality({labels[i] : i \in 1..3}) = 3
          /\ merged.content_category = labels[1]

\* C16: when a step of the merge of two or more partial results fails on a
\* category value that is not a list of strings, the result is the analysis
\* record of the first partial result as it was passed in ({} when the first
\* partial result carries none); a single partial result without a record gives
\* {} as well.
C16_FallbackToFirst ==
    /\ mpc = "done" /\ Len(chunk_analyses) >= 2 /\ ~WellFormed(chunk_analyses) =>
            /\ DOMAIN merged = DOMAIN AnalysisOf(chunk_analyses[1])
            /\ merged = AnalysisOf(chunk_analyses[1])
    /\ mpc = "done" /\ Len(chunk_analyses) = 1 /\ "analysis" \notin DOMAIN chunk_analyses[1] =>
            merged = EmptyDict

\* the second of two partial results holds a number among its key_insights; the
\* first is well-formed, and its record comes back although the second holds
\* candidates the first has not
C16_Witness ==
    /\ mpc = "done" /\ Len(chunk_analyses) = 2
    /\ WellFormed(<<chunk_analyses[1]>>)
    /\ \E j \in 1..Len(Get(AnalysisOf(chunk_analyses[2]), "key_insights", <<>>)) :
            Get(AnalysisOf(chunk_analyses[2]), "key_insights", <<>>)[j] = NotAString
    /\ "analysis" \in DOMAIN chunk_analyses[1]
    /\ merged = chunk_analyses[1].analysis
    /\ "main_alpha" \in DOMAIN merged
    /\ \E j \in 1..Len(CandidatesOf(chunk_analyses, "main_alpha")) :
            \A i \in 1..Len(merged.main_alpha) :
                merged.main_alpha[i] # CandidatesOf(chunk_analyses, "main_alpha")[j]

(***************************************************************************)
(* Properties of the heuristic extraction, checked under SpecAnalyze.      *)
(***************************************************************************)
\* the call ended in _create_basic_analysis_from_transcript
Heuristic ==
    \/ apc = "extracted"
    \/ apc = "analyzed" /\ agent # "parsed" /\ afault # "_prepare_analysis_context"

\* the entries of a list
Entries(xs) == {xs[i] : i \in 1..Len(xs)}

\* the candidates extracted for each category from a text
CandidatesIn(text) ==
    [main_alpha |-> ExtractAlpha(text),
     key_insights |-> ExtractKeyInsights(text),
     actionable_takeaways |-> ExtractActionableTakeaways(text),
     key_quotes |-> PotentialQuotes(text)]

\* the fallback strings of each category for a text
FallbackFor(text) ==
    [main_alpha |-> AlphaFallback(MainCategory(text)),
     key_insights |-> InsightFallback(MainCategory(text)),
     actionable_takeaways |-> TakeawayFallback,
     key_quotes |-> QuoteFallback]

\* C17: in the record _create_basic_analysis_from_transcript builds when no step
\* raises, a category with an extracted candidate holds extracted candidates
\* only, a category without one holds its own fallback strings, whatever the
\* other categories hold; and no category list of a record the heuristic
\* extraction returns is empty.
C17_CategoriesIndependent ==
    /\ Heuristic /\ afault = "none" /\ Find(context) > 0 =>
        \A k \in ListKeys :
            LET candidates == CandidatesIn(TranscriptText(context))[k]
            IN /\ candidates # <<>> => Entries(analysis[k]) \subseteq Entries(candidates)
               /\ candidates = <<>> => analysis[k] = FallbackFor(TranscriptText(context))[k]
    /\ Heuristic => \A k \in ListKeys : analysis[k] # <<>>

\* one sentence after the heading: main_alpha holds what was extracted from it,
\* key_insights and key_quotes, for which nothing was found, hold their fallback
\* strings
C17_Witness ==
    /\ apc = "extracted" /\ afault = "none" /\ Find(context) > 0
    /\ LET text == TranscriptText(context)
       IN /\ ExtractAlpha(text) # <<>>
          /\ Entries(analysis.main_alpha) \subseteq Entries(ExtractAlpha(text))
          /\ ExtractKeyInsights(text) = <<>>
          /\ analysis.key_insights = InsightFallback("business")
          /\ PotentialQuotes(text) = <<>>
          /\ analysis.key_quotes = QuoteFallback

\* C18: when one step of the extraction raises, the record holds for every
\* other category what a call without the failure returns, and for the category
\* of the failing step what an empty candidate list gives, its fallback strings.
C18_FailureIsolated ==
    Heuristic /\ afault \in ExtractionSteps =>
        LET text == TranscriptText(context)
            failed == CASE afault = "potential_quotes" -> "key_quotes"
                        [] afault = "_extract_alpha_from_transcript" -> "main_alpha"
                        [] afault = "_extract_key_insights_from_transcript" -> "key_insights"
                        [] OTHER -> "actionable_takeaways"
        IN \A k \in ListKeys :
                analysis[k] = IF k = failed THEN FallbackFor(text)[k] ELSE BasicAnalysis(text)[k]

\* C19: for an empty transcript the text scanned is the transcript, nothing is
\* extracted from it, and the record of the pipeline has the score 0 and
\* fallback strings only.
C19_EmptyTranscript ==
    apc = "analyzed" /\ transcript_lines = <<>> /\ afault = "none" /\ agent # "parsed" =>
        /\ TranscriptText(context) = transcript_lines
        /\ \A k \in ListKeys : CandidatesIn(TranscriptText(context))[k] = <<>>
        /\ analysis.confidence_score.num = 0
        /\ \A k \in ListKeys :
                \/ analysis[k] = FallbackFor(TranscriptText(context))[k]
                \/ analysis[k] = MinimalFallback[k]

\* C23: the list _extract_alpha_from_transcript returns for the text scanned
\* holds no entry twice, whichever family of patterns, trigger phrases or
\* company mentions, produced the entries (two equal entries are equal ignoring
\* case and surrounding whitespace as well).
C23_AlphaNoDuplicates ==
    Heuristic /\ afault = "none" /\ Find(context) > 0 =>
        LET alpha_insights == ExtractAlpha(TranscriptText(context))
        IN \A i, j \in 1..Len(alpha_insights) :
                i # j => alpha_insights[i] # alpha_insights[j]

(***************************************************************************)
(* Properties of ProgressTracker, checked under SpecTracker.               *)
(***************************************************************************)
StatusRank(status) ==
    CASE status = "pending" -> 0
      [] status = "processing" -> 1
      [] OTHER -> 2

\* C29: a call of start_channel, complete_channel or add_video_found never
\* moves the status of a channel backwards along pending, processing,
\* completed, never makes is_processing_complete false once it is true, and,
\* when the channel it names was not given to start_processing, changes no
\* status and no counter.
C29_StatusForward ==
    [][ last_call'.method \in {"start_channel", "complete_channel", "add_video_found"} =>
            /\ DOMAIN channel_status' = DOMAIN channel_status
            /\ \A channel \in DOMAIN channel_status :
                    StatusRank(channel_status'[channel].status)
                        >= StatusRank(channel_status[channel].status)
            /\ IsProcessingComplete(channels, channel_status)
                    => IsProcessingComplete(channels', channel_status')
            /\ last_call'.channel \notin DOMAIN channel_status =>
                    /\ channel_status' = channel_status
                    /\ total_videos_processed' = total_videos_processed
                    /\ successful_analyses' = successful_analyses
                    /\ errors' = errors ]_vars

(***************************************************************************)
(* Properties of execute_command, checked under SpecCommand.               *)
(***************************************************************************)
\* the calls of tracker_calls made by the loop over valid_channels
ChannelCalls ==
    SelectSeq(tracker_calls, LAMBDA call : call.method \in {"start_channel", "complete_channel"})

\* the channels of the start_channel calls, in the order of the calls
StartedChannels ==
    LET starts == SelectSeq(tracker_calls, LAMBDA call : call.method = "start_channel")
    IN [i \in 1..Len(starts) |-> starts[i].channel]

FinishCalls ==
    {i \in 1..Len(tracker_calls) : tracker_calls[i].method = "finish_processing"}

\* C28: the calls on the tracker made by the loop are start_channel(c),
\* complete_channel(c) in pairs, for the validated channels in order, each
\* started channel completed exactly once before the next is started whatever
\* path the channel takes; finish_processing is called only as the last call,
\* once, and a run that is not a dry run has by then started and completed
\* every validated channel.
C28_StartCompleteFinish ==
    LET calls == ChannelCalls
    IN /\ \A i \in 1..Len(calls) :
            IF i % 2 = 1
            THEN calls[i].method = "start_channel"
            ELSE /\ calls[i].method = "complete_channel"
                 /\ calls[i].channel = calls[i - 1].channel
       /\ StartedChannels = SubSeq(valid_channels, 1, Len(StartedChannels))
       /\ epc \in {"loop", "finally", "returned"} => Len(calls) % 2 = 0
       /\ FinishCalls = IF epc = "returned" THEN {Len(tracker_calls)} ELSE {}
       /\ (epc \in {"finally", "returned"} /\ ~args.dry_run) =>
            /\ StartedChannels = valid_channels
            /\ Len(calls) = 2 * Len(valid_channels)

C28_Witness ==
    /\ epc = "returned" /\ ~args.dry_run
    /\ Len(valid_channels) = 2
    /\ tracker_calls[3].method = "complete_channel" /\ tracker_calls[3].error = "exception"
    /\ tracker_calls[5].method = "complete_channel" /\ tracker_calls[5].success
    /\ tracker_calls[6].method = "finish_processing"

(***************************************************************************)
(* Properties of retry_with_backoff, checked under SpecRetry.              *)
(***************************************************************************)
Raised == {k \in 1..Len(func_calls) : func_calls[k] = "raised"}

\* C30: with max_retries >= 1 the wrapped function is called at most
\* max_retries times; a call that returns is the last call and its value is
\* what the wrapper returns; when every call raised, there were max_retries
\* calls and the wrapper raises the exception of the last one; the wrapper
\* sleeps once after each failed call but the last possible one, so at most
\* max_retries - 1 times, and the k-th sleep lasts
\* base_delay * backoff_factor ** (k - 1).
C30_RetryWithBackoff ==
    (rpc # "idle" /\ max_retries >= 1) =>
        /\ Len(func_calls) <= max_retries
        /\ \A k \in 1..Len(func_calls) :
                func_calls[k] = "returned" =>
                    /\ k = Len(func_calls)
                    /\ rpc = "done"
                    /\ outcome = [kind |-> "return", call |-> k]
        /\ (rpc = "done" /\ Raised = 1..Len(func_calls)) =>
                /\ Len(func_calls) = max_retries
                /\ outcome = [kind |-> "raise", call |-> max_retries]
        /\ Len(delays) <= max_retries - 1
        /\ Len(delays) = IF Cardinality(Raised) = max_retries
                         THEN max_retries - 1 ELSE Cardinality(Raised)
        /\ \A k \in 1..Len(delays) : delays[k] = base_delay * Power(backoff_factor, k - 1)

C30_Witness ==
    /\ rpc = "done" /\ max_retries = 3
    /\ base_delay = 1 /\ backoff_factor = 2
    /\ func_calls = <<"raised", "raised", "raised">>
    /\ delays = <<1, 2>>
    /\ outcome = [kind |-> "raise", call |-> 3]

(***************************************************************************)
(* Properties of one chunker shared by both methods, checked under         *)
(* SpecShared.                                                             *)
(***************************************************************************)
\* C20: no call of chunk_transcript or merge_chunk_analyses changes
\* max_chunk_size or overlap_size, merge_chunk_analyses leaves the list of
\* partial results it is given as it was, and in every state the result of a
\* call is what its arguments and the configuration give, whatever calls of
\* the two methods ran before it or between the call and its return.
C20_NoSharedState ==
    [][ /\ max_chunk_size' = max_chunk_size
        /\ overlap_size' = overlap_size
        /\ mpc = "build" /\ mpc' = "done" => chunk_analyses' = chunk_analyses
        /\ cpc' = "done" =>
                chunks' = ChunkTranscriptResult(transcript', max_chunk_size, overlap_size,
                                                preserve_context', fault')
        /\ mpc' = "done" => merged' = MergeChunkAnalyses(chunk_analyses) ]_vars

\* the results of a chunk_transcript call that split its transcript and of a
\* merge of two partial results are held at once: one call ran between the
\* other and its return
C20_Witness ==
    /\ cpc = "done" /\ Len(chunks) >= 2
    /\ mpc = "done" /\ Len(chunk_analyses) >= 2
    /\ merged = MergeSeveral(chunk_analyses)
    /\ merged # EmptyDict

====
